---- MODULE Spec2Model ----
(***************************************************************************)
(* State-machine model of the AI Agent Hub front end.                      *)
(*                                                                         *)
(* GenerateTab (src/unnamed/part_003): the generation pipeline             *)
(* handleGenerate, a sequential loop of fetch -> generate -> save per      *)
(* test-case id, suspended at every await.                                 *)
(* ReviewTab (src/unnamed/part_001): the dry run of an uploaded script.    *)
(*                                                                         *)
(* Text is modelled as a sequence of one-character strings, so that        *)
(* split, trim and replace are computed character by character.  Error     *)
(* messages, which the code only stores and tests for truthiness, are      *)
(* plain strings.                                                          *)
(***************************************************************************)
EXTENDS Integers, Sequences, FiniteSets, TLC

\* ------------------------------------------------------------------ bounds

\* Largest number of identifiers the user types into the id box.
MaxIds == 2

\* Largest number of scripts uploaded or being read at a time.
MaxFiles == 2

\* ------------------------------------------------------- JavaScript values

\* `undefined` where a message (a plain string) is expected.
Undefined == "undefined"
\* `undefined` / a missing property where text (a character sequence) is expected.
UndefinedText == <<"undefined">>
\* JavaScript truthiness of a message: '' and undefined are falsy.
Truthy(msg) == msg \notin {"", Undefined}
\* JavaScript truthiness of a text: '' and undefined are falsy.
TruthyText(t) == t \notin {<< >>, UndefinedText}

\* a || b on messages
OrElse(a, b) == IF Truthy(a) THEN a ELSE b
\* a || b on texts
OrElseText(a, b) == IF TruthyText(a) THEN a ELSE b

\* \s of a JavaScript regular expression (the members the model's texts use).
Whitespace == {" ", "\n", "\t"}
\* The separator class [,\s\n] of parseTestCaseIds.
Separators == Whitespace \cup {","}

RECURSIVE SplitFrom(_, _, _, _)
\* String.prototype.split on the regular expression /[,\s\n]+/ : the pieces
\* between maximal runs of separators, empty pieces at either end included.
SplitFrom(s, i, cur, inSep) ==
    IF i > Len(s) THEN <<cur>>
    ELSE IF s[i] \in Separators
         THEN IF inSep THEN SplitFrom(s, i + 1, cur, TRUE)
              ELSE <<cur>> \o SplitFrom(s, i + 1, << >>, TRUE)
         ELSE SplitFrom(s, i + 1, Append(cur, s[i]), FALSE)

RECURSIVE TrimStart(_)
TrimStart(s) ==
    IF s # << >> /\ Head(s) \in Whitespace THEN TrimStart(Tail(s)) ELSE s

RECURSIVE TrimEnd(_)
TrimEnd(s) ==
    IF s # << >> /\ s[Len(s)] \in Whitespace
    THEN TrimEnd(SubSeq(s, 1, Len(s) - 1)) ELSE s

\* String.prototype.trim
Trim(s) == TrimEnd(TrimStart(s))

MapTrim(pieces) == [k \in 1..Len(pieces) |-> Trim(pieces[k])]

NonEmpty(id) == Len(id) > 0

\* parseTestCaseIds without its .filter(id => id.length > 0).
ParseKeepsEmptyPieces(input) == MapTrim(SplitFrom(input, 1, << >>, FALSE))

\* parseTestCaseIds with a pass that drops the repeats of an identifier.
ParseDeduplicates(input) ==
    LET RECURSIVE Fresh(_, _)
        Fresh(seen, rest) ==
            IF rest = << >> THEN << >>
            ELSE IF Head(rest) \in seen THEN Fresh(seen, Tail(rest))
            ELSE <<Head(rest)>> \o Fresh(seen \cup {Head(rest)}, Tail(rest))
    IN  Fresh({}, SelectSeq(MapTrim(SplitFrom(input, 1, << >>, FALSE)), NonEmpty))

\* parseTestCaseIds: split, trim every piece, drop the empty ones.
parseTestCaseIds(input) == SelectSeq(MapTrim(SplitFrom(input, 1, << >>, FALSE)), NonEmpty)

RECURSIVE ReplaceWs(_, _, _)
\* s.replace(/\s+/g, '_'): every maximal run of whitespace becomes one '_'.
ReplaceWs(s, i, inWs) ==
    IF i > Len(s) THEN << >>
    ELSE IF s[i] \in Whitespace
         THEN (IF inWs THEN << >> ELSE <<"_">>) \o ReplaceWs(s, i + 1, TRUE)
         ELSE <<s[i]>> \o ReplaceWs(s, i + 1, FALSE)

\* testCaseName?.replace(/\s+/g, '_') || 'test'
NamePart(testCaseName) ==
    IF testCaseName = UndefinedText THEN <<"t", "e", "s", "t">>
    ELSE OrElseText(ReplaceWs(testCaseName, 1, FALSE), <<"t", "e", "s", "t">>)

\* The filename saveTestFile derives from the id and the test-case name.
Filename(tcId, testCaseName) ==
    ReplaceWs(tcId, 1, FALSE) \o <<"_">> \o NamePart(testCaseName)

\* ------------------------------------------------------------ input domains

\* Test-case identifiers the user types.
TC1 == <<"T", "C", "-", "1">>
TC2 == <<"T", "C", "-", "2">>

\* The id lists the user has in mind: TC-1, TC-2, TC-1, ... up to MaxIds ids
\* (distinct neighbours, and a repeat from the third on), TC-1 twice, and the
\* one id TC_1, written with an underscore.
IdLists ==
    {[k \in 1..n |-> IF k % 2 = 1 THEN TC1 ELSE TC2] : n \in 1..MaxIds}
        \cup {<<TC1, TC1>>, << <<"T", "C", "_", "1">> >>}

\* The separator typed after the k-th id: the three kinds the placeholder
\* text of the id box suggests (comma, new line, space), mixed.
SepAfter(k) ==
    CASE k % 3 = 1 -> <<",", " ">>
      [] k % 3 = 2 -> <<"\n">>
      [] OTHER     -> <<" ", ",", "\n">>

RECURSIVE Render(_, _)
\* The text a user types for an id list: ids with separators between and after.
Render(ids, k) ==
    IF k > Len(ids) THEN << >>
    ELSE ids[k] \o SepAfter(k) \o Render(ids, k + 1)

\* What the id box can hold: empty, separators only, or typed id lists
\* (typed with a leading blank).
InputTexts ==
    {<< >>, <<" ", ",", "\n">>} \cup {<<" ">> \o Render(l, 1) : l \in IdLists}

\* What the output folder box can hold: empty, blank, a path.
OutDir == <<"o", "u", "t">>
FolderTexts == {<< >>, <<" ">>, OutDir}

\* A selector that offers a model besides the three.
ModelOptionsWithCustom == {"exacode", "ollama-llama3", "ollama-qwen3", "custom"}

\* The ids of MODEL_OPTIONS (the same in ChatTab, GenerateTab and ReviewTab).
MODEL_OPTIONS == {"exacode", "ollama-llama3", "ollama-qwen3"}

\* ------------------------------------------------------------ HTTP answers

\* error.message of the TypeError a rejected fetch() carries.
FailedToFetch == "Failed to fetch"
\* error.message of the SyntaxError response.json() throws on a body that is no JSON.
JsonSyntaxError == "Unexpected token < in JSON"

\* A request nobody has answered yet.
Pending == [kind |-> "pending", ok |-> FALSE, readable |-> FALSE,
            name |-> UndefinedText, test_code |-> UndefinedText,
            file_path |-> UndefinedText, detail |-> Undefined]
\* fetch() rejects: the network failed, the backend is down.
Rejected == [Pending EXCEPT !.kind = "rejected"]
\* An HTTP answer: response.ok, whether the body parses as JSON, its properties.
Http(ok, readable) == [Pending EXCEPT !.kind = "http", !.ok = ok, !.readable = readable]

\* The name of a test case held by the test-management system.
DoorLock == <<"D", "o", "o", "r", " ", "l", "o", "c", "k">>
\* A generated script.
Script == <<"*", "*", "*", " ", "T", "e", "s", "t">>

\* GET /api/codebeamer/testcase/<id>: rejected, not found, an unreadable body,
\* a test case with a name, a test case without one.
FetchAnswers ==
    { Rejected,
      [Http(FALSE, TRUE) EXCEPT !.detail = "Not found"],
      Http(TRUE, FALSE),
      [Http(TRUE, TRUE) EXCEPT !.name = DoorLock],
      Http(TRUE, TRUE) }

\* POST /api/test/generate-ai: rejected, an error answer with a detail, an error
\* answer with an unreadable body, a script, an answer without test_code.
GenerateAnswers ==
    { Rejected,
      [Http(FALSE, TRUE) EXCEPT !.detail = "LLM provider unavailable"],
      Http(FALSE, FALSE),
      [Http(TRUE, TRUE) EXCEPT !.test_code = Script],
      Http(TRUE, TRUE) }

\* The path the persistence service resolves for a saved file.
ResolvedPath(req) == req.folder_path \o <<"/">> \o req.filename \o <<".", "r", "o", "b", "o", "t">>

\* POST /api/test/save-file: rejected, a filesystem error with a detail, an
\* error answer without one, the resolved path of the written file.
SaveAnswers(req) ==
    { Rejected,
      [Http(FALSE, TRUE) EXCEPT !.detail = "Permission denied"],
      Http(FALSE, TRUE),
      [Http(TRUE, TRUE) EXCEPT !.file_path = ResolvedPath(req)] }

Answers(req) ==
    CASE req.api = "codebeamer" -> FetchAnswers
      [] req.api = "generate"   -> GenerateAnswers
      [] req.api = "save"       -> SaveAnswers(req)

\* -------------------------------------------------------------- state

\* GenerateTab
VARIABLES
    selectedModel,    \* useState('exacode')
    testCaseIds,      \* the text of the id box
    outputFolder,     \* the text of the output folder box
    generatedTests,   \* the result sequence shown
    isLoading,
    currentProgress,  \* { current, total, tcId, status }
    lastAlert,        \* the message of the last alert(), "" before any
    run,              \* the suspended handleGenerate call: its locals and where it awaits
    net,              \* the requests issued and not yet consumed, each with its answer
    written           \* the files the persistence service wrote for the last batch

genVars == <<selectedModel, testCaseIds, outputFolder, generatedTests, isLoading,
             currentProgress, lastAlert, run, net, written>>

\* ReviewTab
VARIABLES
    uploadedFiles,      \* the scripts: { name, tcId, content, size }
    selectedFileIndex,  \* counted from 0, as in the code
    dryRunResult,       \* null, or what the last dry run left
    isDryRunning,
    reads,              \* the uploads whose files are still being read
    dryRunCall,         \* the suspended handleDryRun call
    rvNet               \* the dry-run requests issued and not yet consumed

reviewVars == <<uploadedFiles, selectedFileIndex, dryRunResult, isDryRunning,
                reads, dryRunCall, rvNet>>

\* ReviewTab: for the review result, the dry-run result and the improved code
\* held, the test_case_id and test_code of the request that produced it
VARIABLE producedFrom

\* ReviewTab: review, improve and apply
VARIABLES
    reviewModel,         \* selectedModel of ReviewTab, useState('ollama-qwen3')
    reviewResult,        \* null, or what the last review left
    improvementRequest,  \* the text of the improvement box
    improvedCode,        \* '' or what the last improve left
    isReviewing,
    isImproving,
    reviewCall,          \* the suspended handleReview call
    improveCall,         \* the suspended handleImprove call
    aiNet                \* the review and improve requests issued and not yet consumed

improveVars == <<reviewModel, reviewResult, improvementRequest, improvedCode,
                 isReviewing, isImproving, reviewCall, improveCall, aiNet>>

\* ChatTab, and the session the Session Store holds for its session id
VARIABLES
    chatModel,       \* selectedModel of ChatTab, useState('exacode')
    messages,        \* the transcript shown: { role, content }
    input,           \* the text of the message box
    chatIsLoading,   \* isLoading of ChatTab
    sendCall,        \* the suspended handleSubmit call and its request
    clearCalls,      \* the suspended clearHistory calls and their requests
    session,         \* the turns the store holds for sessionId
    freshlyCleared,  \* the store has cleared the session and begun no send since
    sendsOutstanding \* the send requests issued whose handler has not resumed

chatVars == <<chatModel, messages, input, chatIsLoading, sendCall, clearCalls,
              session, freshlyCleared, sendsOutstanding>>

\* ConfigTab: the local backend and its models
VARIABLES
    provider,         \* config.llm.provider
    ollamaModel,      \* config.llm.ollama.model
    ollamaModels,     \* the names listed last
    isLoadingModels,
    listCalls,        \* the suspended fetchOllamaModels calls and their requests
    configCall        \* the fetchConfig call of the mount effect: await, done

configVars == <<provider, ollamaModel, ollamaModels, isLoadingModels, listCalls,
                configCall>>

\* ConfigTab: the credentials and the connection tests
VARIABLES
    apiKey,       \* config.llm.exacode.api_key
    codebeamer,   \* config.codebeamer: url, username, password
    llmStatus,    \* null, or { success, message }
    cbStatus,     \* null, or { success, message }
    isTesting,    \* { llm, cb }
    testNet       \* the connection-test requests issued and not yet consumed

testVars == <<apiKey, codebeamer, llmStatus, cbStatus, isTesting, testNet>>

\* What the handlers of a tab leave alone: the state of the other tabs.
besidesGen == <<reviewVars, producedFrom, improveVars, chatVars, configVars, testVars>>
besidesReview == <<genVars, chatVars, configVars, testVars>>
besidesChat == <<genVars, reviewVars, producedFrom, improveVars, configVars, testVars>>
besidesConfig == <<genVars, reviewVars, producedFrom, improveVars, chatVars>>
besidesTests == <<genVars, reviewVars, producedFrom, improveVars, chatVars, configVars>>

vars == <<genVars, reviewVars, producedFrom, improveVars, chatVars, configVars, testVars>>

\* A request body; the properties an endpoint does not take stay undefined.
NoRequest == [api |-> "none", tcId |-> UndefinedText, description |-> [prompt |-> "", tcId |-> UndefinedText, name |-> UndefinedText],
              model |-> Undefined, folder_path |-> UndefinedText,
              filename |-> UndefinedText, content |-> UndefinedText]

\* fetch('/api/codebeamer/testcase/' + tcId)
FetchRequest(tcId) == [NoRequest EXCEPT !.api = "codebeamer", !.tcId = tcId]

\* testCaseData: null, or the parsed body of the test-management answer.
NullData == [isNull |-> TRUE, name |-> UndefinedText]
TestCaseData(body) == [isNull |-> FALSE, name |-> body.name]

\* The description sent to the model: the fields of the fetched test case
\* (`Test Case ID: ${tcId}\nName: ${testCaseData.name || ''}...`), or the
\* bare-identifier prompt when testCaseData is null.
Description(tcId, testCaseData) ==
    IF ~testCaseData.isNull
    THEN [prompt |-> "Test Case ID: ", tcId |-> tcId,
          name |-> OrElseText(testCaseData.name, << >>)]
    ELSE [prompt |-> "Generate Robot Framework test for Test Case ID: ",
          tcId |-> tcId, name |-> UndefinedText]

\* fetch('/api/test/generate-ai', ...)
GenerateRequest(tcId, testCaseData, model) ==
    [NoRequest EXCEPT !.api = "generate", !.tcId = tcId, !.model = model,
                      !.description = Description(tcId, testCaseData)]

\* fetch('/api/test/save-file', ...) as saveTestFile issues it.
SaveRequest(folderPath, tcId, content, testCaseName) ==
    [NoRequest EXCEPT !.api = "save", !.tcId = tcId, !.folder_path = folderPath,
                      !.filename = Filename(tcId, testCaseName), !.content = content]

\* No handleGenerate call is running.
IdleRun == [pc |-> "idle", tcIds |-> << >>, i |-> 0, results |-> << >>,
            testCaseData |-> NullData, testCode |-> UndefinedText,
            testCaseName |-> UndefinedText, model |-> Undefined,
            folder |-> UndefinedText, awaits |-> NoRequest]

\* `*** Test Cases ***\n# Generated for ${tcId}\n# Error: No test code returned`
NoCodePlaceholder(tcId) == <<"#", "G", ":">> \o tcId \o <<"#", "E", ":", "n", "o", "n", "e">>

\* `*** Test Cases ***\n# Error generating test for ${tcId}: ${error.message}`
ErrorStub(tcId, message) == <<"#", "E", ":">> \o tcId \o <<":", message>>

\* The entry pushed when the try block of an iteration completes.
SuccessResult(tcId, testCode, testCaseName, saveResult) ==
    [tcId |-> tcId, status |-> "success", testCode |-> testCode,
     testCaseName |-> testCaseName, error |-> Undefined,
     saved |-> saveResult.success, savedPath |-> saveResult.path,
     saveError |-> saveResult.error]

\* The entry pushed by the catch block of an iteration.
ErrorResult(tcId, message) ==
    [tcId |-> tcId, status |-> "error", testCode |-> ErrorStub(tcId, message),
     testCaseName |-> UndefinedText, error |-> message,
     saved |-> FALSE, savedPath |-> UndefinedText, saveError |-> Undefined]

\* saveTestFile without its `if (!response.ok)` check: any readable answer
\* counts as a written file.
SaveResultIgnoresStatus(resp) ==
    IF resp.kind = "rejected"
    THEN [success |-> FALSE, path |-> UndefinedText, error |-> FailedToFetch]
    ELSE IF ~resp.readable
    THEN [success |-> FALSE, path |-> UndefinedText, error |-> JsonSyntaxError]
    ELSE [success |-> TRUE, path |-> resp.file_path, error |-> Undefined]

\* saveTestFile throwing new Error(err.detail), without `|| 'Failed to save file'`.
SaveResultWithoutDefault(resp) ==
    IF resp.kind = "rejected"
    THEN [success |-> FALSE, path |-> UndefinedText, error |-> FailedToFetch]
    ELSE IF ~resp.readable
    THEN [success |-> FALSE, path |-> UndefinedText, error |-> JsonSyntaxError]
    ELSE IF ~resp.ok
    THEN [success |-> FALSE, path |-> UndefinedText, error |-> resp.detail]
    ELSE [success |-> TRUE, path |-> resp.file_path, error |-> Undefined]

\* What saveTestFile returns for the answer to its request.
SaveResult(resp) ==
    IF resp.kind = "rejected"
    THEN [success |-> FALSE, path |-> UndefinedText, error |-> FailedToFetch]
    ELSE IF ~resp.readable
    THEN [success |-> FALSE, path |-> UndefinedText, error |-> JsonSyntaxError]
    ELSE IF ~resp.ok
    THEN [success |-> FALSE, path |-> UndefinedText,
          error |-> OrElse(resp.detail, "Failed to save file")]
    ELSE [success |-> TRUE, path |-> resp.file_path, error |-> Undefined]

\* canGenerate, as the render computes it.
canGenerate ==
    Len(parseTestCaseIds(testCaseIds)) > 0 /\ Len(Trim(outputFolder)) > 0

\* The Generate button with disabled={!canGenerate}: clickable while a batch runs.
GenerateDisabledIgnoresLoading == ~canGenerate

\* disabled={isLoading || !canGenerate} of the Generate button.
GenerateDisabled == isLoading \/ ~canGenerate

\* A status text of the progress bar; the closing one,
\* `${savedCount}/${tcIds.length} files saved to ${outputFolder}`, holds values.
Status(text) == [text |-> text, savedCount |-> 0, of |-> 0, folder |-> << >>]
SavedStatus(savedCount, total, folder) ==
    [text |-> " files saved to ", savedCount |-> savedCount, of |-> total, folder |-> folder]

Progress(current, total, tcId, status) ==
    [current |-> current, total |-> total, tcId |-> tcId, status |-> status]

Complete == <<"C", "o", "m", "p", "l", "e", "t", "e", "!">>

\* A summary that counts every result as saved.
CountResults(results) == Len(results)

RECURSIVE CountSaved(_)
\* results.filter(r => r.saved).length
CountSaved(results) ==
    IF results = << >> THEN 0
    ELSE (IF Head(results).saved THEN 1 ELSE 0) + CountSaved(Tail(results))

\* --------------------------------------------------- GenerateTab operations

GenInit ==
    /\ selectedModel = "exacode"
    /\ testCaseIds = << >>
    /\ outputFolder = << >>
    /\ generatedTests = << >>
    /\ isLoading = FALSE
    /\ currentProgress = Progress(0, 0, << >>, Status(""))
    /\ lastAlert = ""
    /\ run = IdleRun
    /\ net = {}
    /\ written = {}

\* onChange of the AI Model select.
SetSelectedModel(id) ==
    /\ id \in MODEL_OPTIONS
    /\ id # selectedModel
    /\ selectedModel' = id
    /\ UNCHANGED <<testCaseIds, outputFolder, generatedTests, isLoading,
                   currentProgress, lastAlert, run, net, written>>
    /\ UNCHANGED besidesGen

\* onChange of the id box.
SetTestCaseIds(text) ==
    /\ text # testCaseIds
    /\ testCaseIds' = text
    /\ UNCHANGED <<selectedModel, outputFolder, generatedTests, isLoading,
                   currentProgress, lastAlert, run, net, written>>
    /\ UNCHANGED besidesGen

\* onChange of the output folder box.
SetOutputFolder(text) ==
    /\ text # outputFolder
    /\ outputFolder' = text
    /\ UNCHANGED <<selectedModel, testCaseIds, generatedTests, isLoading,
                   currentProgress, lastAlert, run, net, written>>
    /\ UNCHANGED besidesGen

\* The request the call r awaited, with its answer: the resumed call consumes it.
Consumed(r) == {m \in net : m.req = r.awaits}

\* The head of one loop iteration, up to its first await: the progress report
\* and the test-case fetch for tcIds[i] (i counts from 1 here).
StartIteration(r, i) ==
    LET tcId == r.tcIds[i]
        req  == FetchRequest(tcId)
    IN  /\ currentProgress' = Progress(i, Len(r.tcIds), tcId, Status("Generating..."))
        /\ run' = [r EXCEPT !.pc = "fetch", !.i = i, !.testCaseData = NullData,
                            !.testCode = UndefinedText, !.testCaseName = UndefinedText,
                            !.awaits = req]
        /\ net' = (net \ Consumed(r)) \cup {[req |-> req, resp |-> Pending]}

\* The end of the loop without setIsLoading(false).
FinishLeavesLoading(r) ==
    /\ isLoading' = isLoading
    /\ currentProgress' =
          Progress(Len(r.tcIds), Len(r.tcIds), Complete,
                   SavedStatus(CountSaved(r.results), Len(r.tcIds), r.folder))
    /\ run' = IdleRun
    /\ net' = net \ Consumed(r)

\* What follows the loop: the loading flag falls and the summary is reported.
Finish(r) ==
    /\ isLoading' = FALSE
    /\ currentProgress' =
          Progress(Len(r.tcIds), Len(r.tcIds), Complete,
                   SavedStatus(CountSaved(r.results), Len(r.tcIds), r.folder))
    /\ run' = IdleRun
    /\ net' = net \ Consumed(r)

\* A catch block that pushes nothing: failed ids leave no entry.
RecordSkipsFailures(entry) ==
    LET r == IF entry.status = "error" THEN run
             ELSE [run EXCEPT !.results = Append(run.results, entry)]
    IN  /\ generatedTests' = r.results
        /\ IF r.i < Len(r.tcIds)
           THEN StartIteration(r, r.i + 1) /\ UNCHANGED isLoading
           ELSE Finish(r)

\* The tail of one loop iteration: the entry is pushed, the result sequence is
\* published, and the loop goes on to the next id or ends.
Record(entry) ==
    LET r == [run EXCEPT !.results = Append(run.results, entry)]
    IN  /\ generatedTests' = r.results
        /\ IF r.i < Len(r.tcIds)
           THEN StartIteration(r, r.i + 1) /\ UNCHANGED isLoading
           ELSE Finish(r)

\* handleGenerate up to its first await, for valid input.
StartBatch(tcIds) ==
    /\ isLoading' = TRUE
    /\ generatedTests' = << >>
    /\ StartIteration([IdleRun EXCEPT !.tcIds = tcIds, !.model = selectedModel,
                                      !.folder = outputFolder], 1)
    /\ written' = {}
    /\ UNCHANGED lastAlert

\* handleGenerate: validation, then the batch.
handleGenerate ==
    LET tcIds == parseTestCaseIds(testCaseIds)
    IN  IF Len(tcIds) = 0
        THEN /\ lastAlert' = "Please enter at least one Test Case ID"
             /\ UNCHANGED <<generatedTests, isLoading, currentProgress, run, net, written>>
        ELSE IF Len(Trim(outputFolder)) = 0
        THEN /\ lastAlert' = "Please enter Output Folder path to save generated test scripts"
             /\ UNCHANGED <<generatedTests, isLoading, currentProgress, run, net, written>>
        ELSE StartBatch(tcIds)

\* A click on the Generate button.
ClickGenerate ==
    /\ ~GenerateDisabled
    /\ handleGenerate
    /\ UNCHANGED <<selectedModel, testCaseIds, outputFolder>>
    /\ UNCHANGED besidesGen

\* The files after the answer a to the request req: a save request answered
\* ok has written its content at the resolved path, replacing what was there.
WrittenAfter(req, a) ==
    IF req.api = "save" /\ a.kind = "http" /\ a.ok
    THEN {f \in written : f.path # a.file_path}
            \cup {[path |-> a.file_path, content |-> req.content]}
    ELSE written

\* The backend, the test-management system or the network answers a request.
Answer ==
    \E m \in net :
        /\ m.resp = Pending
        /\ \E a \in Answers(m.req) :
              /\ net' = (net \ {m}) \cup {[req |-> m.req, resp |-> a]}
              /\ written' = WrittenAfter(m.req, a)
        /\ UNCHANGED <<selectedModel, testCaseIds, outputFolder, generatedTests,
                       isLoading, currentProgress, lastAlert, run>>
    /\ UNCHANGED besidesGen

\* The answer to the request the handler awaits, Pending while there is none.
Awaited ==
    IF \E m \in net : m.req = run.awaits /\ m.resp # Pending
    THEN (CHOOSE m \in net : m.req = run.awaits /\ m.resp # Pending).resp
    ELSE Pending

\* The inner try block without `if (tcResponse.ok)`: the body of an error
\* answer is taken for a test case.
FetchedDataIgnoresStatus(resp) ==
    IF resp.kind = "http" /\ resp.readable
    THEN TestCaseData(resp) ELSE NullData

\* The inner try block: testCaseData stays null unless the fetch resolves with
\* an ok answer whose body parses.
FetchedData(resp) ==
    IF resp.kind = "http" /\ resp.ok /\ resp.readable
    THEN TestCaseData(resp) ELSE NullData

\* The handler resumes after the test-case fetch and issues the generation call.
AfterFetch ==
    /\ run.pc = "fetch"
    /\ Awaited # Pending
    /\ LET data == FetchedData(Awaited)
           req  == GenerateRequest(run.tcIds[run.i], data, run.model)
       IN  /\ run' = [run EXCEPT !.pc = "generate", !.testCaseData = data, !.awaits = req]
           /\ net' = (net \ Consumed(run)) \cup {[req |-> req, resp |-> Pending]}
    /\ UNCHANGED <<selectedModel, testCaseIds, outputFolder, generatedTests,
                   isLoading, currentProgress, lastAlert, written>>
    /\ UNCHANGED besidesGen

\* data.test_code without the placeholder fallback.
TestCodeWithoutPlaceholder(resp, tcId) == resp.test_code

\* data.test_code || the placeholder
TestCodeOf(resp, tcId) == OrElseText(resp.test_code, NoCodePlaceholder(tcId))

\* testCaseData?.name || tcId
TestCaseNameOf(testCaseData, tcId) ==
    IF testCaseData.isNull THEN tcId ELSE OrElseText(testCaseData.name, tcId)

\* Whether the generation step throws into the catch block: fetch rejected, or
\* response.json() failed.
GenerateThrows(resp) == resp.kind = "rejected" \/ ~resp.readable

\* error.message of what the generation step throws.
GenerateError(resp) == IF resp.kind = "rejected" THEN FailedToFetch ELSE JsonSyntaxError

\* The handler resumes after the generation call: the catch block records an
\* error entry, or the script is taken from the answer and the save is issued.
AfterGenerate ==
    /\ run.pc = "generate"
    /\ Awaited # Pending
    /\ LET tcId == run.tcIds[run.i]
       IN  IF GenerateThrows(Awaited)
           THEN Record(ErrorResult(tcId, GenerateError(Awaited)))
           ELSE LET testCode     == TestCodeOf(Awaited, tcId)
                    testCaseName == TestCaseNameOf(run.testCaseData, tcId)
                    req          == SaveRequest(run.folder, tcId, testCode, testCaseName)
                IN  /\ currentProgress' =
                          Progress(run.i, Len(run.tcIds), tcId, Status("Saving..."))
                    /\ run' = [run EXCEPT !.pc = "save", !.testCode = testCode,
                                          !.testCaseName = testCaseName, !.awaits = req]
                    /\ net' = (net \ Consumed(run)) \cup {[req |-> req, resp |-> Pending]}
                    /\ UNCHANGED <<generatedTests, isLoading>>
    /\ UNCHANGED <<selectedModel, testCaseIds, outputFolder, lastAlert, written>>
    /\ UNCHANGED besidesGen

\* The handler resumes after saveTestFile and records the success entry.
AfterSave ==
    /\ run.pc = "save"
    /\ Awaited # Pending
    /\ Record(SuccessResult(run.tcIds[run.i], run.testCode, run.testCaseName,
                            SaveResult(Awaited)))
    /\ UNCHANGED <<selectedModel, testCaseIds, outputFolder, lastAlert, written>>
    /\ UNCHANGED besidesGen

\* -------------------------------------------------------- ReviewTab

\* The characters of the class [A-Za-z0-9-_] the model's file names use.
IdChars == {"T", "C", "-", "_", "1", "2", "n", "o", "t", "e", "s", "a", "r", "b"}

DotRobot == <<".", "r", "o", "b", "o", "t">>

RECURSIVE RemoveFirst(_, _, _)
\* s.replace(pat, ''): the first occurrence of pat, from position i on, is removed.
RemoveFirst(s, pat, i) ==
    IF i + Len(pat) - 1 > Len(s) THEN s
    ELSE IF SubSeq(s, i, i + Len(pat) - 1) = pat
         THEN SubSeq(s, 1, i - 1) \o SubSeq(s, i + Len(pat), Len(s))
         ELSE RemoveFirst(s, pat, i + 1)

\* The lengths k of the matches of /^([A-Za-z0-9-_]+?)_/ : k >= 1 characters
\* of the class, then an underscore.
TcIdMatches(filename) ==
    {k \in 1..(Len(filename) - 1) :
        /\ \A j \in 1..k : filename[j] \in IdChars
        /\ filename[k + 1] = "_"}

\* parseTcIdFromFilename: the lazy group takes the shortest match; without a
\* match the name loses its first '.robot'.
parseTcIdFromFilename(filename) ==
    IF TcIdMatches(filename) # {}
    THEN SubSeq(filename, 1, CHOOSE k \in TcIdMatches(filename) :
                                 \A j \in TcIdMatches(filename) : k <= j)
    ELSE RemoveFirst(filename, DotRobot, 1)

\* The record handleFileUpload builds for a file that has been read.
FileData(name, content) ==
    [name |-> name, tcId |-> parseTcIdFromFilename(name), content |-> content,
     size |-> Len(content)]

\* The files on the user's disk: a generated script, an empty script, notes.
LocalFiles ==
    { FileData(TC1 \o <<"_">> \o <<"a">> \o DotRobot, Script),
      FileData(TC2 \o <<"_">> \o <<"b">> \o DotRobot, << >>),
      FileData(<<"n", "o", "t", "e", "s">> \o DotRobot, <<"*", "*", "*">>) }

\* What the user picks in the file dialog: one file or two.
Selections ==
    {<<f>> : f \in LocalFiles} \cup
    {<<f, g>> : f \in LocalFiles, g \in LocalFiles}

\* A parsed JSON body, or a DryRunResult built by the handler: the properties
\* it has, and their values.
Object(props) ==
    [isNull |-> FALSE, props |-> props, success |-> FALSE, output |-> <<"">>,
     errors |-> << >>, detail |-> Undefined,
     feedback |-> UndefinedText, suggestions |-> << >>, score |-> << >>,
     test_code |-> UndefinedText, response |-> UndefinedText]
\* null
NullObject == [Object({}) EXCEPT !.isNull = TRUE]

\* A DryRunResult as the syntax checker reports it.
CheckerResult(success, output, errors) ==
    [Object({"success", "output", "errors"}) EXCEPT
        !.success = success, !.output = <<output>>, !.errors = errors]

\* An answer to a dry-run request.
RvPending == [kind |-> "pending", ok |-> FALSE, readable |-> FALSE, body |-> NullObject]
RvRejected == [RvPending EXCEPT !.kind = "rejected"]
RvHttp(ok, readable, body) ==
    [kind |-> "http", ok |-> ok, readable |-> readable, body |-> body]

\* POST /api/test/dry-run: rejected, an unreadable body, an error answer with a
\* detail, a clean report, a report with one error.
DryRunAnswers ==
    { RvRejected,
      RvHttp(FALSE, FALSE, NullObject),
      RvHttp(FALSE, TRUE, [Object({"detail"}) EXCEPT !.detail = "Dry run failed"]),
      RvHttp(TRUE, TRUE, CheckerResult(TRUE, "ok", << >>)),
      RvHttp(TRUE, TRUE, CheckerResult(FALSE, "1 error", <<"missing keyword X">>)) }

\* fetch('/api/test/dry-run', ...)
DryRunRequest(content) == [api |-> "dry-run", test_code |-> content]

\* No handleDryRun call is running.
IdleCall == [pc |-> "idle", awaits |-> [api |-> "none", test_code |-> << >>]]

ReviewInit ==
    /\ uploadedFiles = << >>
    /\ selectedFileIndex = 0
    /\ dryRunResult = NullObject
    /\ isDryRunning = FALSE
    /\ reads = << >>
    /\ dryRunCall = IdleCall
    /\ rvNet = {}
    /\ producedFrom = [review |-> << >>, dryRun |-> << >>, improve |-> << >>]
    /\ reviewModel = "ollama-qwen3"
    /\ reviewResult = NullObject
    /\ improvementRequest = << >>
    /\ improvedCode = << >>
    /\ isReviewing = FALSE
    /\ isImproving = FALSE
    /\ reviewCall = IdleCall
    /\ improveCall = IdleCall
    /\ aiNet = {}

\* getCurrentFile() !== null
HasCurrentFile == selectedFileIndex + 1 \in 1..Len(uploadedFiles)
\* getCurrentFile(), where there is one
CurrentFile == uploadedFiles[selectedFileIndex + 1]

RECURSIVE FilesBeingRead(_)
FilesBeingRead(rs) ==
    IF rs = << >> THEN 0 ELSE Len(Head(rs).files) + FilesBeingRead(Tail(rs))

\* handleFileUpload up to the reading of the files: the callback that will
\* run holds the uploadedFiles of this render.
handleFileUpload(files) ==
    /\ Len(uploadedFiles) + FilesBeingRead(reads) + Len(files) <= MaxFiles
    /\ reads' = Append(reads, [files |-> files, uploadedFilesLength |-> Len(uploadedFiles)])
    /\ UNCHANGED <<uploadedFiles, selectedFileIndex, dryRunResult, isDryRunning,
                   dryRunCall, rvNet>>
    /\ UNCHANGED producedFrom
    /\ UNCHANGED <<improveVars, besidesReview>>

\* All files of the k-th upload have been read: the Promise.all callback.
FilesRead(k) ==
    /\ k \in 1..Len(reads)
    /\ uploadedFiles' = uploadedFiles \o reads[k].files
    /\ selectedFileIndex' =
          IF reads[k].uploadedFilesLength = 0 THEN 0 ELSE selectedFileIndex
    /\ reads' = SubSeq(reads, 1, k - 1) \o SubSeq(reads, k + 1, Len(reads))
    /\ UNCHANGED <<dryRunResult, isDryRunning, dryRunCall, rvNet>>
    /\ UNCHANGED producedFrom
    /\ UNCHANGED <<improveVars, besidesReview>>

\* A click on the row of a script.
SelectFile(index) ==
    /\ index \in 0..(Len(uploadedFiles) - 1)
    /\ index # selectedFileIndex
    /\ selectedFileIndex' = index
    /\ UNCHANGED <<uploadedFiles, dryRunResult, isDryRunning, reads, dryRunCall, rvNet>>
    /\ UNCHANGED producedFrom
    /\ UNCHANGED <<improveVars, besidesReview>>

Max(a, b) == IF a >= b THEN a ELSE b

\* removeFile that leaves the selection where it is.
removeFileKeepsIndex(index) ==
    /\ index \in 0..(Len(uploadedFiles) - 1)
    /\ uploadedFiles' = SubSeq(uploadedFiles, 1, index)
                            \o SubSeq(uploadedFiles, index + 2, Len(uploadedFiles))
    /\ UNCHANGED <<selectedFileIndex, dryRunResult, isDryRunning, reads, dryRunCall, rvNet>>
    /\ UNCHANGED producedFrom
    /\ UNCHANGED <<improveVars, besidesReview>>

\* removeFile(index), from the remove button of a row.
removeFile(index) ==
    /\ index \in 0..(Len(uploadedFiles) - 1)
    /\ uploadedFiles' = SubSeq(uploadedFiles, 1, index)
                            \o SubSeq(uploadedFiles, index + 2, Len(uploadedFiles))
    /\ selectedFileIndex' =
          IF selectedFileIndex >= Len(uploadedFiles) - 1
          THEN Max(0, Len(uploadedFiles) - 2) ELSE selectedFileIndex
    /\ UNCHANGED <<dryRunResult, isDryRunning, reads, dryRunCall, rvNet>>
    /\ UNCHANGED producedFrom
    /\ UNCHANGED <<improveVars, besidesReview>>

\* clearAllFiles, from the Clear button shown while there are scripts.
clearAllFiles ==
    /\ Len(uploadedFiles) > 0
    /\ uploadedFiles' = << >>
    /\ selectedFileIndex' = 0
    /\ reviewResult' = NullObject
    /\ dryRunResult' = NullObject
    /\ UNCHANGED <<isDryRunning, reads, dryRunCall, rvNet>>
    /\ UNCHANGED <<reviewModel, improvementRequest, improvedCode, isReviewing,
                   isImproving, reviewCall, improveCall, aiNet>>
    /\ producedFrom' = [producedFrom EXCEPT !.review = << >>, !.dryRun = << >>]
    /\ UNCHANGED besidesReview

\* handleDryRun up to its await, from the Dry Run button
\* (disabled={isDryRunning || !currentFile}).
handleDryRun ==
    /\ ~isDryRunning
    /\ HasCurrentFile
    /\ isDryRunning' = TRUE
    /\ dryRunResult' = NullObject
    /\ LET req == DryRunRequest(CurrentFile.content)
       IN  /\ dryRunCall' = [pc |-> "await", awaits |-> req]
           /\ rvNet' = rvNet \cup {[req |-> req, resp |-> RvPending]}
    /\ UNCHANGED <<uploadedFiles, selectedFileIndex, reads>>
    /\ producedFrom' = [producedFrom EXCEPT !.dryRun = << >>]
    /\ UNCHANGED <<improveVars, besidesReview>>

\* The backend or the network answers the dry-run request.
DryRunAnswer ==
    \E m \in rvNet :
        /\ m.resp = RvPending
        /\ \E a \in DryRunAnswers :
              rvNet' = (rvNet \ {m}) \cup {[req |-> m.req, resp |-> a]}
        /\ UNCHANGED <<uploadedFiles, selectedFileIndex, dryRunResult, isDryRunning,
                       reads, dryRunCall>>
    /\ UNCHANGED producedFrom
    /\ UNCHANGED <<improveVars, besidesReview>>

\* A catch block that reports failure without saying what failed.
CaughtDryRunWithoutMessage(message) ==
    [Object({"success", "output", "errors"}) EXCEPT
        !.success = FALSE, !.output = <<"Error: ", message>>, !.errors = << >>]

\* The DryRunResult the catch block of handleDryRun builds.
CaughtDryRun(message) ==
    [Object({"success", "output", "errors"}) EXCEPT
        !.success = FALSE, !.output = <<"Error: ", message>>, !.errors = <<message>>]

\* What handleDryRun stores for an answer: the parsed body whatever the
\* status, or the catch block's result when fetch or response.json() throws.
DryRunOutcome(resp) ==
    IF resp.kind = "rejected" THEN CaughtDryRun(FailedToFetch)
    ELSE IF ~resp.readable THEN CaughtDryRun(JsonSyntaxError)
    ELSE resp.body

\* The handler resumes after the dry-run request.
AfterDryRun ==
    /\ dryRunCall.pc = "await"
    /\ \E m \in rvNet :
          /\ m.req = dryRunCall.awaits
          /\ m.resp # RvPending
          /\ dryRunResult' = DryRunOutcome(m.resp)
          /\ rvNet' = rvNet \ {m}
    /\ isDryRunning' = FALSE
    /\ dryRunCall' = IdleCall
    /\ UNCHANGED <<uploadedFiles, selectedFileIndex, reads>>
    /\ producedFrom' = [producedFrom EXCEPT !.dryRun = <<UndefinedText, dryRunCall.awaits.test_code>>]
    /\ UNCHANGED <<improveVars, besidesReview>>

\* ------------------------------------------- ReviewTab: review and improve

\* An improved script.
ImprovedScript == Script \o <<"+">>

\* POST /api/test/review: rejected, an error answer with a detail, a review
\* with a score, a review whose text held no score.
ReviewAnswers ==
    { RvRejected,
      RvHttp(FALSE, TRUE, [Object({"detail"}) EXCEPT !.detail = "Model unavailable"]),
      RvHttp(TRUE, TRUE, [Object({"feedback", "suggestions", "score"}) EXCEPT
                            !.feedback = <<"Score: 7/10">>, !.score = <<7>>]),
      RvHttp(TRUE, TRUE, [Object({"feedback", "suggestions", "score"}) EXCEPT
                            !.feedback = <<"Good coverage">>,
                            !.suggestions = <<"Add teardown">>]) }

\* POST /api/test/improve: rejected, an error answer without a detail, the
\* improved script.
ImproveAnswers ==
    { RvRejected,
      RvHttp(FALSE, TRUE, Object({})),
      RvHttp(TRUE, TRUE, [Object({"test_code"}) EXCEPT !.test_code = ImprovedScript]) }

\* What the improvement box can hold: empty, blank, a request.
RequestTexts == {<< >>, <<" ">>, <<"f", "i", "x">>}

\* The body of the review request (improvement_request absent) and of the
\* improve request.
AiRequest(api, file, model, request) ==
    [api |-> api, test_code |-> file.content, test_case_id |-> file.tcId,
     model |-> model, improvement_request |-> request]

\* No handleReview (handleImprove) call is running.
IdleAiCall == [pc |-> "idle", awaits |-> AiRequest("none", FileData(<< >>, << >>), "", << >>)]

\* error.message in the catch block of handleReview and handleImprove: of the
\* rejected fetch, of response.json(), or of
\* new Error(data.detail || fallback) for a response that is not ok.
ThrownMessage(resp, fallback) ==
    IF resp.kind = "rejected" THEN FailedToFetch
    ELSE IF ~resp.readable THEN JsonSyntaxError
    ELSE OrElse(IF "detail" \in resp.body.props THEN resp.body.detail ELSE Undefined,
                fallback)

\* The try block throws: fetch rejects, the body is unreadable, or !response.ok.
Throws(resp) == resp.kind = "rejected" \/ ~resp.readable \/ ~resp.ok

\* A select onChange of the Review Model box.
SetReviewModel(id) ==
    /\ id \in MODEL_OPTIONS
    /\ id # reviewModel
    /\ reviewModel' = id
    /\ UNCHANGED <<reviewResult, improvementRequest, improvedCode, isReviewing,
                   isImproving, reviewCall, improveCall, aiNet>>
    /\ UNCHANGED producedFrom
    /\ UNCHANGED <<reviewVars, besidesReview>>

\* handleReview up to its await, from the Review button
\* (disabled={isReviewing || !currentFile}).
handleReview ==
    /\ ~isReviewing
    /\ HasCurrentFile
    /\ isReviewing' = TRUE
    /\ reviewResult' = NullObject
    /\ LET req == AiRequest("review", CurrentFile, reviewModel, UndefinedText)
       IN  /\ reviewCall' = [pc |-> "await", awaits |-> req]
           /\ aiNet' = aiNet \cup {[req |-> req, resp |-> RvPending]}
    /\ UNCHANGED <<reviewModel, improvementRequest, improvedCode, isImproving, improveCall>>
    /\ producedFrom' = [producedFrom EXCEPT !.review = << >>]
    /\ UNCHANGED <<reviewVars, besidesReview>>

\* The backend or the network answers a review or an improve request.
AiAnswer ==
    \E m \in aiNet :
        /\ m.resp = RvPending
        /\ \E a \in (IF m.req.api = "review" THEN ReviewAnswers ELSE ImproveAnswers) :
              aiNet' = (aiNet \ {m}) \cup {[req |-> m.req, resp |-> a]}
        /\ UNCHANGED <<reviewModel, reviewResult, improvementRequest, improvedCode,
                       isReviewing, isImproving, reviewCall, improveCall>>
    /\ UNCHANGED producedFrom
        /\ UNCHANGED <<reviewVars, besidesReview>>

\* A catch block of handleReview that makes up a score.
CaughtReviewWithScore(message) ==
    [Object({"feedback", "suggestions", "score"}) EXCEPT
        !.feedback = <<"Error reviewing test: ", message>>, !.score = <<0>>]

\* The object the catch block of handleReview stores: score is null.
CaughtReview(message) ==
    [Object({"feedback", "suggestions", "score"}) EXCEPT
        !.feedback = <<"Error reviewing test: ", message>>]

\* What handleReview stores for an answer.
ReviewOutcome(resp) ==
    IF Throws(resp) THEN CaughtReview(ThrownMessage(resp, "Failed to review test"))
    ELSE resp.body

\* The handler resumes after the review request.
AfterReview ==
    /\ reviewCall.pc = "await"
    /\ \E m \in aiNet :
          /\ m.req = reviewCall.awaits
          /\ m.resp # RvPending
          /\ reviewResult' = ReviewOutcome(m.resp)
          /\ aiNet' = aiNet \ {m}
    /\ isReviewing' = FALSE
    /\ reviewCall' = IdleAiCall
    /\ UNCHANGED <<reviewModel, improvementRequest, improvedCode, isImproving, improveCall>>
    /\ producedFrom' = [producedFrom EXCEPT !.review =
                          <<reviewCall.awaits.test_case_id, reviewCall.awaits.test_code>>]
    /\ UNCHANGED <<reviewVars, besidesReview>>

\* The textarea onChange of the improvement box (shown with a review result).
SetImprovementRequest(text) ==
    /\ ~reviewResult.isNull
    /\ text # improvementRequest
    /\ improvementRequest' = text
    /\ UNCHANGED <<reviewModel, reviewResult, improvedCode, isReviewing, isImproving,
                   reviewCall, improveCall, aiNet>>
    /\ UNCHANGED producedFrom
    /\ UNCHANGED <<reviewVars, besidesReview>>

\* handleImprove up to its await, from the Improve button (shown with a review
\* result, disabled={isImproving || !improvementRequest.trim()}); without a
\* current file the handler returns at once.
handleImprove ==
    /\ ~reviewResult.isNull
    /\ ~isImproving
    /\ Trim(improvementRequest) # << >>
    /\ HasCurrentFile
    /\ isImproving' = TRUE
    /\ improvedCode' = << >>
    /\ LET req == AiRequest("improve", CurrentFile, reviewModel, improvementRequest)
       IN  /\ improveCall' = [pc |-> "await", awaits |-> req]
           /\ aiNet' = aiNet \cup {[req |-> req, resp |-> RvPending]}
    /\ UNCHANGED <<reviewModel, reviewResult, improvementRequest, isReviewing, reviewCall>>
    /\ producedFrom' = [producedFrom EXCEPT !.improve = << >>]
    /\ UNCHANGED <<reviewVars, besidesReview>>

\* What handleImprove stores for an answer: data.test_code, or the error text
\* of the catch block.
ImproveOutcome(resp) ==
    IF Throws(resp) THEN <<"# Error: ", ThrownMessage(resp, "Failed to improve test")>>
    ELSE IF "test_code" \in resp.body.props THEN resp.body.test_code ELSE UndefinedText

\* A handler that, resuming, writes what it got into the current script.
AfterImproveInPlace ==
    /\ improveCall.pc = "await"
    /\ \E m \in aiNet :
          /\ m.req = improveCall.awaits
          /\ m.resp # RvPending
          /\ improvedCode' = ImproveOutcome(m.resp)
          /\ uploadedFiles' =
                IF HasCurrentFile
                THEN [uploadedFiles EXCEPT ![selectedFileIndex + 1].content = improvedCode']
                ELSE uploadedFiles
          /\ aiNet' = aiNet \ {m}
    /\ isImproving' = FALSE
    /\ improveCall' = IdleAiCall
    /\ UNCHANGED <<reviewModel, reviewResult, improvementRequest, isReviewing, reviewCall>>
    /\ UNCHANGED <<selectedFileIndex, dryRunResult, isDryRunning, reads, dryRunCall, rvNet>>
    /\ producedFrom' = [producedFrom EXCEPT !.improve =
                          <<improveCall.awaits.test_case_id, improveCall.awaits.test_code>>]
    /\ UNCHANGED besidesReview

\* The handler resumes after the improve request.
AfterImprove ==
    /\ improveCall.pc = "await"
    /\ \E m \in aiNet :
          /\ m.req = improveCall.awaits
          /\ m.resp # RvPending
          /\ improvedCode' = ImproveOutcome(m.resp)
          /\ aiNet' = aiNet \ {m}
    /\ isImproving' = FALSE
    /\ improveCall' = IdleAiCall
    /\ UNCHANGED <<reviewModel, reviewResult, improvementRequest, isReviewing, reviewCall>>
    /\ producedFrom' = [producedFrom EXCEPT !.improve =
                          <<improveCall.awaits.test_case_id, improveCall.awaits.test_code>>]
    /\ UNCHANGED <<reviewVars, besidesReview>>

\* applyImprovement, from the Apply button (shown while improvedCode is truthy).
applyImprovement ==
    /\ TruthyText(improvedCode)
    /\ HasCurrentFile
    /\ uploadedFiles' = [uploadedFiles EXCEPT ![selectedFileIndex + 1].content = improvedCode]
    /\ improvedCode' = << >>
    /\ reviewResult' = NullObject
    /\ dryRunResult' = NullObject
    /\ UNCHANGED <<selectedFileIndex, isDryRunning, reads, dryRunCall, rvNet>>
    /\ UNCHANGED <<reviewModel, improvementRequest, isReviewing, isImproving,
                   reviewCall, improveCall, aiNet>>
    /\ producedFrom' = [review |-> << >>, dryRun |-> << >>, improve |-> << >>]
    /\ UNCHANGED besidesReview

\* ------------------------------------------------------------------ ChatTab

\* Largest number of messages in the transcript when a message is submitted.
MaxMessages == 4
\* Largest number of turns the store holds when a message is submitted.
MaxTurns == 3
\* Largest number of clearHistory calls running at a time.
MaxClears == 1

\* MODEL_OPTIONS.find(m => m.id === selectedModel)?.name || 'AI'
ModelName(id) ==
    CASE id = "exacode" -> "EXACODE"
      [] id = "ollama-llama3" -> "Llama3:8B"
      [] id = "ollama-qwen3" -> "Qwen3:8B"
      [] OTHER -> "AI"

\* The transcript of one assistant message that greets in the name of a model:
\* the welcome message, the message after a clear.
Greeting(text, id) == <<[role |-> "assistant", content |-> <<text, ModelName(id)>>]>>

\* What the message box can hold: empty, blank, a message typed after a blank.
ChatTexts == {<< >>, <<" ">>, <<" ", "h", "i">>}

\* POST /api/chat/send once the model has been called: the reply, or an error
\* answer with a detail.
SendAnswers ==
    { RvHttp(TRUE, TRUE, [Object({"response"}) EXCEPT !.response = <<"reply">>]),
      RvHttp(FALSE, TRUE, [Object({"detail"}) EXCEPT !.detail = "Model unavailable"]) }

\* No handleSubmit call is running.  While one runs, stage tells where its
\* request is: sent, processing (in the store, the model called), answered.
IdleSend == [pc |-> "idle", stage |-> "none", model |-> "", message |-> << >>,
             resp |-> RvPending]

ChatInit ==
    /\ chatModel = "exacode"
    /\ messages = Greeting("Hello! I'm ", "exacode")
    /\ input = << >>
    /\ chatIsLoading = FALSE
    /\ sendCall = IdleSend
    /\ clearCalls = << >>
    /\ session = << >>
    /\ freshlyCleared = FALSE
    /\ sendsOutstanding = 0

\* A click on a model of the selector; the effect on [selectedModel] sets the
\* welcome message of the model.
SetChatModel(id) ==
    /\ id \in MODEL_OPTIONS
    /\ id # chatModel
    /\ chatModel' = id
    /\ messages' = Greeting("Hello! I'm ", id)
    /\ UNCHANGED <<input, chatIsLoading, sendsOutstanding, sendCall, clearCalls, session, freshlyCleared>>
    /\ UNCHANGED besidesChat

\* onChange of the message box.
SetInput(text) ==
    /\ text # input
    /\ input' = text
    /\ UNCHANGED <<chatModel, messages, chatIsLoading, sendsOutstanding, sendCall, clearCalls, session,
                   freshlyCleared>>
    /\ UNCHANGED besidesChat

\* A handleSubmit that does not look at isLoading.
handleSubmitWhileLoading ==
    /\ Trim(input) # << >>
    /\ Len(messages) + 2 <= MaxMessages
    /\ Len(session) + 2 <= MaxTurns
    /\ messages' = Append(messages, [role |-> "user", content |-> Trim(input)])
    /\ input' = << >>
    /\ chatIsLoading' = TRUE
    /\ sendsOutstanding' = sendsOutstanding + 1
    /\ sendCall' = [IdleSend EXCEPT !.pc = "await", !.stage = "sent",
                                    !.model = chatModel, !.message = Trim(input)]
    /\ UNCHANGED <<chatModel, clearCalls, session, freshlyCleared>>
    /\ UNCHANGED besidesChat

\* handleSubmit up to its await.
handleSubmit ==
    /\ Trim(input) # << >>
    /\ ~chatIsLoading
    /\ Len(messages) + 2 <= MaxMessages
    /\ Len(session) + 2 <= MaxTurns
    /\ messages' = Append(messages, [role |-> "user", content |-> Trim(input)])
    /\ input' = << >>
    /\ chatIsLoading' = TRUE
    /\ sendsOutstanding' = sendsOutstanding + 1
    /\ sendCall' = [IdleSend EXCEPT !.pc = "await", !.stage = "sent",
                                    !.model = chatModel, !.message = Trim(input)]
    /\ UNCHANGED <<chatModel, clearCalls, session, freshlyCleared>>
    /\ UNCHANGED besidesChat

\* The send request does not reach the backend: fetch rejects.
SendRejected ==
    /\ sendCall.stage = "sent"
    /\ sendCall' = [sendCall EXCEPT !.stage = "answered", !.resp = RvRejected]
    /\ UNCHANGED <<chatModel, messages, input, chatIsLoading, sendsOutstanding, clearCalls, session,
                   freshlyCleared>>
    /\ UNCHANGED besidesChat

\* send(session_id, message, model) begins: the user turn is appended, the
\* prompt is built over the session and the model is called.
StoreBeginsSend ==
    /\ sendCall.stage = "sent"
    /\ session' = Append(session, [role |-> "user", content |-> sendCall.message])
    /\ freshlyCleared' = FALSE
    /\ sendCall' = [sendCall EXCEPT !.stage = "processing"]
    /\ UNCHANGED <<chatModel, messages, input, chatIsLoading, sendsOutstanding, clearCalls>>
    /\ UNCHANGED besidesChat

\* send ends: the model has answered and the assistant turn is appended, or
\* the model call has failed.
StoreEndsSend ==
    /\ sendCall.stage = "processing"
    /\ \E a \in SendAnswers :
          /\ sendCall' = [sendCall EXCEPT !.stage = "answered", !.resp = a]
          /\ session' = IF a.ok
                         THEN Append(session, [role |-> "assistant",
                                               content |-> a.body.response])
                         ELSE session
    /\ UNCHANGED <<chatModel, messages, input, chatIsLoading, sendsOutstanding, clearCalls, freshlyCleared>>
    /\ UNCHANGED besidesChat

\* A handler that puts the reply in the place of the message it answers.
AfterSendReplacesLast ==
    /\ sendCall.stage = "answered"
    /\ messages' =
          [messages EXCEPT ![Len(messages)] =
              [role |-> "assistant",
               content |-> IF Throws(sendCall.resp)
                           THEN <<"Connection Error", sendCall.model>>
                           ELSE sendCall.resp.body.response]]
    /\ chatIsLoading' = FALSE
    /\ sendsOutstanding' = sendsOutstanding - 1
    /\ sendCall' = IdleSend
    /\ UNCHANGED <<chatModel, input, clearCalls, session, freshlyCleared>>
    /\ UNCHANGED besidesChat

\* The handler resumes after the send request: the reply, or the connection
\* error notice of the catch block, is appended.
AfterSend ==
    /\ sendCall.stage = "answered"
    /\ messages' =
          Append(messages,
                 [role |-> "assistant",
                  content |->
                    IF Throws(sendCall.resp)
                    THEN <<"Connection Error",
                           ThrownMessage(sendCall.resp, "Failed to send message"),
                           IF sendCall.model = "exacode"
                           THEN "EXACODE API key is configured in Config tab"
                           ELSE "Ollama is running locally",
                           ModelName(sendCall.model)>>
                    ELSE sendCall.resp.body.response])
    /\ chatIsLoading' = FALSE
    /\ sendsOutstanding' = sendsOutstanding - 1
    /\ sendCall' = IdleSend
    /\ UNCHANGED <<chatModel, input, clearCalls, session, freshlyCleared>>
    /\ UNCHANGED besidesChat

\* clearHistory up to its await, from the Clear button.
clearHistory ==
    /\ Len(clearCalls) < MaxClears
    /\ clearCalls' = Append(clearCalls, [model |-> chatModel, resp |-> "sent"])
    /\ UNCHANGED <<chatModel, messages, input, chatIsLoading, sendsOutstanding, sendCall, session,
                   freshlyCleared>>
    /\ UNCHANGED besidesChat

\* clear(session_id): all turns of the session are dropped; or the backend
\* answers with an error and drops nothing; or the request does not reach it.
StoreClears(k) ==
    /\ k \in 1..Len(clearCalls)
    /\ clearCalls[k].resp = "sent"
    /\ \/ /\ clearCalls' = [clearCalls EXCEPT ![k].resp = "ok"]
          /\ session' = << >>
          /\ freshlyCleared' = TRUE
       \/ /\ \E r \in {"failed", "rejected"} :
                clearCalls' = [clearCalls EXCEPT ![k].resp = r]
          /\ UNCHANGED <<session, freshlyCleared>>
    /\ UNCHANGED <<chatModel, messages, input, chatIsLoading, sendsOutstanding, sendCall>>
    /\ UNCHANGED besidesChat

\* The k-th clearHistory call resumes: the transcript becomes the one message
\* that says so, response.ok is not looked at; a rejected request is logged
\* only.
AfterClear(k) ==
    /\ k \in 1..Len(clearCalls)
    /\ clearCalls[k].resp # "sent"
    /\ messages' = IF clearCalls[k].resp = "rejected" THEN messages
                    ELSE Greeting("Chat history cleared. I'm ", clearCalls[k].model)
    /\ clearCalls' = SubSeq(clearCalls, 1, k - 1) \o SubSeq(clearCalls, k + 1, Len(clearCalls))
    /\ UNCHANGED <<chatModel, input, chatIsLoading, sendsOutstanding, sendCall, session, freshlyCleared>>
    /\ UNCHANGED besidesChat

\* ---------------------------------------------------------------- ConfigTab

\* Largest number of fetchOllamaModels calls running at a time.
MaxListings == 2

\* Names of local models.
ModelNames == {"llama3:8b", "qwen3:8b"}

\* GET <OLLAMA_URL>/api/tags: rejected, an error answer, an unreadable body, a
\* body without models, an empty list, lists of one and of two models.
ListAnswers ==
    { [kind |-> "rejected", ok |-> FALSE, readable |-> FALSE, hasModels |-> FALSE, models |-> << >>],
      [kind |-> "http", ok |-> FALSE, readable |-> TRUE, hasModels |-> FALSE, models |-> << >>],
      [kind |-> "http", ok |-> TRUE, readable |-> FALSE, hasModels |-> FALSE, models |-> << >>],
      [kind |-> "http", ok |-> TRUE, readable |-> TRUE, hasModels |-> FALSE, models |-> << >>],
      [kind |-> "http", ok |-> TRUE, readable |-> TRUE, hasModels |-> TRUE, models |-> << >>],
      [kind |-> "http", ok |-> TRUE, readable |-> TRUE, hasModels |-> TRUE,
       models |-> <<"qwen3:8b">>],
      [kind |-> "http", ok |-> TRUE, readable |-> TRUE, hasModels |-> TRUE,
       models |-> <<"qwen3:8b", "llama3:8b">>] }

\* A listing request nobody has answered yet.
ListPending ==
    [kind |-> "pending", ok |-> FALSE, readable |-> FALSE, hasModels |-> FALSE, models |-> << >>]

\* What a credential box can hold: empty, blank, a value.
FieldTexts == {<< >>, <<" ">>, <<"k">>}

\* useState(null) of llmStatus and cbStatus
NoStatus == [isNull |-> TRUE, success |-> FALSE, message |-> Undefined]
\* { success, message }
TestStatus(success, message) == [isNull |-> FALSE, success |-> success, message |-> message]

ConfigInit ==
    /\ provider = "exacode"
    /\ ollamaModel = "llama3:8b"
    /\ ollamaModels = << >>
    /\ isLoadingModels = FALSE
    /\ listCalls = << >>
    /\ configCall = "await"
    /\ apiKey = << >>
    /\ codebeamer = [url |-> << >>, username |-> << >>, password |-> << >>]
    /\ llmStatus = NoStatus
    /\ cbStatus = NoStatus
    /\ isTesting = [llm |-> FALSE, cb |-> FALSE]
    /\ testNet = {}

\* fetchConfig resumes on the answer to GET /api/config/current: an answer
\* that is not ok or a rejected request changes nothing; the provider of an ok
\* answer is stored (exacode when it has none), its local model when it has
\* one, and its CodeBeamer url ('' when it has none).
fetchConfig ==
    /\ configCall = "await"
    /\ configCall' = "done"
    /\ \E ok \in BOOLEAN, p \in {Undefined, "ollama"}, m \in {Undefined} \cup ModelNames,
          u \in {UndefinedText, <<"u">>} :
          IF ok
          THEN /\ provider' = OrElse(p, "exacode")
               /\ ollamaModel' = OrElse(m, ollamaModel)
               /\ codebeamer' = [codebeamer EXCEPT !.url = OrElseText(u, << >>)]
          ELSE UNCHANGED <<provider, ollamaModel, codebeamer>>
    /\ UNCHANGED <<ollamaModels, isLoadingModels, listCalls>>
    /\ UNCHANGED <<apiKey, llmStatus, cbStatus, isTesting, testNet>>
    /\ UNCHANGED besidesConfig

\* fetchOllamaModels up to its await; the call holds the config of this render.
fetchOllamaModels ==
    /\ Len(listCalls) < MaxListings
    /\ isLoadingModels' = TRUE
    /\ listCalls' = Append(listCalls, [model |-> ollamaModel, resp |-> ListPending])
    /\ UNCHANGED <<ollamaModel, ollamaModels, configCall>>

\* The provider buttons: LGE EXACODE, and Ollama (Local), which lists the models.
ClickProvider(p) ==
    /\ provider' = p
    /\ IF p = "ollama" THEN fetchOllamaModels
       ELSE provider # p /\ UNCHANGED <<ollamaModel, ollamaModels, configCall, isLoadingModels, listCalls>>
    /\ UNCHANGED <<testVars, besidesConfig>>

\* The refresh button of the Ollama section (disabled={isLoadingModels}).
ClickRefresh ==
    /\ provider = "ollama"
    /\ ~isLoadingModels
    /\ fetchOllamaModels
    /\ UNCHANGED provider
    /\ UNCHANGED <<testVars, besidesConfig>>

\* The Available Model box of the Ollama section: a select over the listed
\* names, a text input while none is listed.
SetOllamaModel(name) ==
    /\ provider = "ollama"
    /\ name # ollamaModel
    /\ IF Len(ollamaModels) > 0
       THEN \E k \in 1..Len(ollamaModels) : name = ollamaModels[k]
       ELSE name \in ModelNames \cup {""}
    /\ ollamaModel' = name
    /\ UNCHANGED <<provider, ollamaModels, configCall, isLoadingModels, listCalls>>
    /\ UNCHANGED <<testVars, besidesConfig>>

\* The local backend or the network answers the k-th listing request.
ListingAnswer(k) ==
    /\ k \in 1..Len(listCalls)
    /\ listCalls[k].resp = ListPending
    /\ \E a \in ListAnswers : listCalls' = [listCalls EXCEPT ![k].resp = a]
    /\ UNCHANGED <<provider, ollamaModel, ollamaModels, configCall, isLoadingModels>>
    /\ UNCHANGED <<testVars, besidesConfig>>

\* A handler that falls back to the default model when it learns of none.
ListedOrDefault(resp) ==
    IF resp.kind = "http" /\ resp.ok /\ resp.readable /\ resp.hasModels /\ resp.models # << >>
    THEN resp.models ELSE <<"llama3:8b">>

\* The names fetchOllamaModels stores: (data.models || []).map(m => m.name) of
\* an ok answer, [] in the else branch and in the catch block.
Listed(resp) ==
    IF resp.kind = "http" /\ resp.ok /\ resp.readable /\ resp.hasModels
    THEN resp.models ELSE << >>

\* The k-th fetchOllamaModels call resumes.
AfterListing(k) ==
    /\ k \in 1..Len(listCalls)
    /\ listCalls[k].resp # ListPending
    /\ LET models == Listed(listCalls[k].resp)
       IN  /\ ollamaModels' = models
           /\ ollamaModel' =
                 IF /\ Len(models) > 0
                    /\ \A j \in 1..Len(models) : models[j] # listCalls[k].model
                 THEN models[1] ELSE ollamaModel
    /\ isLoadingModels' = FALSE
    /\ listCalls' = SubSeq(listCalls, 1, k - 1) \o SubSeq(listCalls, k + 1, Len(listCalls))
    /\ UNCHANGED <<provider, configCall>>
    /\ UNCHANGED <<testVars, besidesConfig>>

\* ------------------------------------------- ConfigTab: connection tests

\* onChange of the API Key box.
SetApiKey(text) ==
    /\ provider = "exacode"
    /\ text # apiKey
    /\ apiKey' = text
    /\ UNCHANGED <<codebeamer, llmStatus, cbStatus, isTesting, testNet>>
    /\ UNCHANGED besidesTests

\* onChange of the URL, Username and Password boxes.
SetCodeBeamer(field, text) ==
    /\ text # codebeamer[field]
    /\ codebeamer' = [codebeamer EXCEPT ![field] = text]
    /\ UNCHANGED <<apiKey, llmStatus, cbStatus, isTesting, testNet>>
    /\ UNCHANGED besidesTests

\* testLLMConnection up to its return or its await, from the Test Connection
\* button (disabled={isTesting.llm}).
testLLMConnection ==
    /\ ~isTesting.llm
    /\ IF provider = "exacode" /\ (~TruthyText(apiKey) \/ Trim(apiKey) = << >>)
       THEN /\ llmStatus' = TestStatus(FALSE,
                   "EXACODE API Key is required. Please enter your API key first.")
            /\ UNCHANGED <<isTesting, testNet>>
       ELSE /\ isTesting' = [isTesting EXCEPT !.llm = TRUE]
            /\ llmStatus' = NoStatus
            /\ testNet' = testNet \cup
                  {[api |-> "test-llm", provider |-> provider,
                    api_key |-> IF provider = "exacode" THEN apiKey ELSE UndefinedText,
                    model |-> IF provider = "exacode" THEN "Chat-EXACODE-A" ELSE ollamaModel,
                    resp |-> "pending"]}
    /\ UNCHANGED <<apiKey, codebeamer, cbStatus>>
    /\ UNCHANGED besidesTests

\* A testCodeBeamerConnection that tests for empty boxes only.
testCodeBeamerConnectionUntrimmed ==
    /\ ~isTesting.cb
    /\ IF ~TruthyText(codebeamer.url)
       THEN cbStatus' = TestStatus(FALSE, "CodeBeamer URL is required.")
               /\ UNCHANGED <<isTesting, testNet>>
       ELSE IF ~TruthyText(codebeamer.username)
       THEN cbStatus' = TestStatus(FALSE, "Username is required.")
               /\ UNCHANGED <<isTesting, testNet>>
       ELSE IF ~TruthyText(codebeamer.password)
       THEN cbStatus' = TestStatus(FALSE, "Password is required.")
               /\ UNCHANGED <<isTesting, testNet>>
       ELSE /\ isTesting' = [isTesting EXCEPT !.cb = TRUE]
            /\ cbStatus' = NoStatus
            /\ testNet' = testNet \cup
                  {[api |-> "test-codebeamer", provider |-> Undefined,
                    api_key |-> UndefinedText, model |-> Undefined, resp |-> "pending"]}
    /\ UNCHANGED <<apiKey, codebeamer, llmStatus>>
    /\ UNCHANGED besidesTests

\* testCodeBeamerConnection up to its return or its await, from the Test
\* Connection button (disabled={isTesting.cb}); the request has no body.
testCodeBeamerConnection ==
    /\ ~isTesting.cb
    /\ IF ~TruthyText(codebeamer.url) \/ Trim(codebeamer.url) = << >>
       THEN cbStatus' = TestStatus(FALSE, "CodeBeamer URL is required.")
               /\ UNCHANGED <<isTesting, testNet>>
       ELSE IF ~TruthyText(codebeamer.username) \/ Trim(codebeamer.username) = << >>
       THEN cbStatus' = TestStatus(FALSE, "Username is required.")
               /\ UNCHANGED <<isTesting, testNet>>
       ELSE IF ~TruthyText(codebeamer.password) \/ Trim(codebeamer.password) = << >>
       THEN cbStatus' = TestStatus(FALSE, "Password is required.")
               /\ UNCHANGED <<isTesting, testNet>>
       ELSE /\ isTesting' = [isTesting EXCEPT !.cb = TRUE]
            /\ cbStatus' = NoStatus
            /\ testNet' = testNet \cup
                  {[api |-> "test-codebeamer", provider |-> Undefined,
                    api_key |-> UndefinedText, model |-> Undefined, resp |-> "pending"]}
    /\ UNCHANGED <<apiKey, codebeamer, llmStatus>>
    /\ UNCHANGED besidesTests

\* The backend or the network answers a connection test: the request is
\* rejected, or it is answered with { success: true } or { success: false }.
TestAnswer ==
    \E m \in testNet :
        /\ m.resp = "pending"
        /\ \E a \in {"rejected", "connected", "failed"} :
              testNet' = (testNet \ {m}) \cup {[m EXCEPT !.resp = a]}
        /\ UNCHANGED <<apiKey, codebeamer, llmStatus, cbStatus, isTesting>>
        /\ UNCHANGED besidesTests

\* testLLMConnection resumes after its request.
AfterTestLLM ==
    /\ \E m \in testNet :
          /\ m.api = "test-llm"
          /\ m.resp # "pending"
          /\ llmStatus' =
                CASE m.resp = "rejected" -> TestStatus(FALSE, FailedToFetch)
                  [] m.resp = "connected" ->
                        TestStatus(TRUE, OrElse(Undefined, "Connected! Model ready."))
                  [] OTHER -> TestStatus(FALSE, OrElse(Undefined, "Connection failed"))
          /\ testNet' = testNet \ {m}
    /\ isTesting' = [isTesting EXCEPT !.llm = FALSE]
    /\ UNCHANGED <<apiKey, codebeamer, cbStatus>>
    /\ UNCHANGED besidesTests

\* testCodeBeamerConnection resumes after its request.
AfterTestCodeBeamer ==
    /\ \E m \in testNet :
          /\ m.api = "test-codebeamer"
          /\ m.resp # "pending"
          /\ cbStatus' =
                CASE m.resp = "rejected" -> TestStatus(FALSE, FailedToFetch)
                  [] m.resp = "connected" -> TestStatus(TRUE, "Connection successful!")
                  [] OTHER -> TestStatus(FALSE, Undefined)
          /\ testNet' = testNet \ {m}
    /\ isTesting' = [isTesting EXCEPT !.cb = FALSE]
    /\ UNCHANGED <<apiKey, codebeamer, llmStatus>>
    /\ UNCHANGED besidesTests

\* ------------------------------------------------------------ specifications

Init == GenInit /\ ReviewInit /\ ChatInit /\ ConfigInit

\* GenerateTab: the user edits the boxes at any time.
GenNext ==
    \/ \E text \in InputTexts : SetTestCaseIds(text)
    \/ \E text \in FolderTexts : SetOutputFolder(text)
    \/ ClickGenerate
    \/ Answer
    \/ AfterFetch
    \/ AfterGenerate
    \/ AfterSave

Spec == Init /\ [][GenNext]_vars

\* The tab with a user who leaves the two input boxes alone while a batch
\* runs (the running call works on the ids and the folder it captured at the
\* click, see C1).
LiveNext ==
    \/ ~isLoading /\ \E text \in InputTexts : SetTestCaseIds(text)
    \/ ~isLoading /\ \E text \in FolderTexts : SetOutputFolder(text)
    \/ ClickGenerate
    \/ Answer
    \/ AfterFetch
    \/ AfterGenerate
    \/ AfterSave

\* The fetch, generate and save requests the handler awaits always settle, and
\* a settled promise resumes the handler: the event loop runs its continuation.
FairSpec ==
    /\ Init /\ [][LiveNext]_vars
    /\ WF_vars(Answer)
    /\ WF_vars(AfterFetch)
    /\ WF_vars(AfterGenerate)
    /\ WF_vars(AfterSave)

\* ReviewTab: uploads, selection, removal and the dry run.
ReviewNext ==
    \/ \E files \in Selections : handleFileUpload(files)
    \/ \E k \in 1..MaxFiles : FilesRead(k)
    \/ \E index \in 0..(MaxFiles - 1) : SelectFile(index)
    \/ \E index \in 0..(MaxFiles - 1) : removeFile(index)
    \/ clearAllFiles
    \/ handleDryRun
    \/ DryRunAnswer
    \/ AfterDryRun

SpecReview == Init /\ [][ReviewNext]_vars

\* ReviewTab: uploads, selection, review, improve and apply, with a user who
\* uploads non-empty files, and only into an empty list.
ImproveNext ==
    \/ /\ uploadedFiles = << >> /\ reads = << >>
       /\ \E files \in Selections :
             /\ \A k \in 1..Len(files) : files[k].content # << >>
             /\ handleFileUpload(files)
    \/ \E k \in 1..MaxFiles : FilesRead(k)
    \/ \E index \in 0..(MaxFiles - 1) : SelectFile(index)
    \/ \E index \in 0..(MaxFiles - 1) : removeFile(index)
    \/ handleReview
    \/ \E text \in RequestTexts : SetImprovementRequest(text)
    \/ handleImprove
    \/ AiAnswer
    \/ AfterReview
    \/ AfterImprove
    \/ applyImprovement

SpecImprove == Init /\ [][ImproveNext]_vars

\* ChatTab and the store's session for its id.
ChatNext ==
    \/ \E id \in MODEL_OPTIONS : SetChatModel(id)
    \/ \E text \in ChatTexts : SetInput(text)
    \/ handleSubmit
    \/ SendRejected
    \/ StoreBeginsSend
    \/ StoreEndsSend
    \/ AfterSend
    \/ clearHistory
    \/ \E k \in 1..MaxClears : StoreClears(k)
    \/ \E k \in 1..MaxClears : AfterClear(k)

SpecChat == Init /\ [][ChatNext]_vars

\* ConfigTab: the provider, the local model and the listing of the models.
ConfigNext ==
    \/ fetchConfig
    \/ \E p \in {"exacode", "ollama"} : ClickProvider(p)
    \/ ClickRefresh
    \/ \E name \in ModelNames \cup {""} : SetOllamaModel(name)
    \/ \E k \in 1..MaxListings : ListingAnswer(k)
    \/ \E k \in 1..MaxListings : AfterListing(k)

SpecConfig == Init /\ [][ConfigNext]_vars

\* ConfigTab: the initial load, the provider, the credentials and the
\* connection tests.
TestNext ==
    \/ fetchConfig
    \/ ClickProvider("exacode")
    \/ \E text \in FieldTexts : SetApiKey(text)
    \/ \E field \in {"url", "username", "password"}, text \in FieldTexts :
          SetCodeBeamer(field, text)
    \/ testLLMConnection
    \/ testCodeBeamerConnection
    \/ TestAnswer
    \/ AfterTestLLM
    \/ AfterTestCodeBeamer

SpecTest == Init /\ [][TestNext]_vars

\* The other tabs are as they were when the page was loaded.
OnlyTab(tab) ==
    /\ tab # "generate" => GenInit
    /\ tab # "review" => ReviewInit
    /\ tab # "chat" => ChatInit

\* The three tabs that send a model with their requests, with a user who
\* works in one tab per page load: in GenerateTab with one id and the folder,
\* in ReviewTab with one upload of non-empty files, in ChatTab.
AppNext ==
    \/ OnlyTab("generate") /\ \E id \in MODEL_OPTIONS : SetSelectedModel(id)
    \/ OnlyTab("generate") /\ SetTestCaseIds(<<" ">> \o Render(<<TC1>>, 1))
    \/ OnlyTab("generate") /\ SetOutputFolder(OutDir)
    \/ OnlyTab("generate") /\ ClickGenerate
    \/ OnlyTab("generate") /\ Answer
    \/ OnlyTab("generate") /\ AfterFetch
    \/ OnlyTab("generate") /\ AfterGenerate
    \/ OnlyTab("generate") /\ AfterSave
    \/ OnlyTab("review") /\ \E id \in MODEL_OPTIONS : SetReviewModel(id)
    \/ /\ OnlyTab("review") /\ uploadedFiles = << >> /\ reads = << >>
       /\ \E files \in Selections :
             /\ \A k \in 1..Len(files) : files[k].content # << >>
             /\ handleFileUpload(files)
    \/ OnlyTab("review") /\ \E k \in 1..MaxFiles : FilesRead(k)
    \/ OnlyTab("review") /\ handleReview
    \/ OnlyTab("review") /\ \E text \in RequestTexts : SetImprovementRequest(text)
    \/ OnlyTab("review") /\ handleImprove
    \/ OnlyTab("review") /\ AiAnswer
    \/ OnlyTab("review") /\ AfterReview
    \/ OnlyTab("review") /\ AfterImprove
    \/ OnlyTab("chat") /\ \E id \in MODEL_OPTIONS : SetChatModel(id)
    \/ OnlyTab("chat") /\ \E text \in ChatTexts : SetInput(text)
    \/ OnlyTab("chat") /\ handleSubmit
    \/ OnlyTab("chat") /\ SendRejected
    \/ OnlyTab("chat") /\ StoreBeginsSend
    \/ OnlyTab("chat") /\ StoreEndsSend
    \/ OnlyTab("chat") /\ AfterSend

SpecApp == Init /\ [][AppNext]_vars

\* ------------------------------------------------- generation pipeline claims

\* The ids of a result sequence, in order.
IdsOf(results) == [k \in 1..Len(results) |-> results[k].tcId]

\* The handler resumes in this step (the steps of the user and of the network
\* leave its locals alone).
HandlerResumes == run' # run /\ isLoading

\* C1: for a batch of N identifiers exactly one result per identifier is
\* recorded, in input order.  In every step of a running batch the recorded
\* sequence grows by at most one entry, stays the outcomes of the first k ids
\* of the input the batch was started with (k = the number of ids processed),
\* and when the batch completes k = N; a batch starts from the empty sequence
\* with the ids parsed from the id box, and nothing else changes the sequence.
C1_OneResultPerIdInOrder ==
    [][ IF isLoading
        THEN /\ IdsOf(generatedTests') = SubSeq(run.tcIds, 1, Len(generatedTests'))
             /\ \/ generatedTests' = generatedTests
                \/ /\ Len(generatedTests') = Len(generatedTests) + 1
                   /\ SubSeq(generatedTests', 1, Len(generatedTests)) = generatedTests
             /\ isLoading' => /\ run'.tcIds = run.tcIds
                              /\ Len(generatedTests') = run'.i - 1
             /\ ~isLoading' => Len(generatedTests') = Len(run.tcIds)
        ELSE IF isLoading'
        THEN /\ generatedTests' = << >>
             /\ run'.tcIds = parseTestCaseIds(testCaseIds)
             /\ run'.i = 1
        ELSE generatedTests' = generatedTests ]_vars

\* C1 witness: a batch of two distinct ids has completed, the first id's
\* generation having failed and the second id's save having failed.
C1_Witness ==
    /\ ~isLoading
    /\ IdsOf(generatedTests) = <<TC1, TC2>>
    /\ generatedTests[1].status = "error"
    /\ generatedTests[2].status = "success"
    /\ ~generatedTests[2].saved

\* The generation call failed: the request was rejected, or the backend
\* answered with an error response that carries no script.
GenerationFailed(resp) ==
    \/ resp.kind = "rejected"
    \/ resp.kind = "http" /\ ~resp.ok /\ ~TruthyText(resp.test_code)

\* C2: when the generation call for an identifier fails, the step that handles
\* the failure records for that identifier a result with status error, an error
\* message and saved = false, issues no save request, and goes on to the next
\* identifier (or completes the batch after the last one).
C2_GenerationFailureIsErrorResult ==
    [][ (HandlerResumes /\ run.pc = "generate" /\ GenerationFailed(Awaited))
        => /\ Len(generatedTests') = Len(generatedTests) + 1
           /\ LET e == generatedTests'[Len(generatedTests')]
              IN  /\ e.tcId = run.tcIds[run.i]
                  /\ e.status = "error"
                  /\ Truthy(e.error)
                  /\ ~e.saved
           /\ \A m \in net' : m.req.api # "save"
           /\ IF run.i < Len(run.tcIds)
              THEN isLoading' /\ run'.i = run.i + 1
              ELSE ~isLoading' ]_vars

\* C3: every started batch eventually finishes, with as many results as ids.
C3_BatchFinishes ==
    \A n \in 1..(MaxIds + 1) :
        (isLoading /\ Len(run.tcIds) = n) ~> (~isLoading /\ Len(generatedTests) = n)

\* C3 witness: a batch of at least two ids has finished with all its results.
C3_Witness ==
    /\ ~isLoading
    /\ currentProgress.tcId = Complete
    /\ currentProgress.total >= 2
    /\ Len(generatedTests) = currentProgress.total

\* C4: the pipeline is strictly sequential.  At most one request is
\* outstanding; it is the one the handler awaits, it is for the identifier
\* at the handler's position, and the outcomes of all earlier identifiers
\* (and of no other) are recorded.
C4_Sequential ==
    /\ Cardinality(net) <= 1
    /\ \A m \in net :
          /\ isLoading
          /\ m.req = run.awaits
          /\ m.req.api = (CASE run.pc = "fetch" -> "codebeamer"
                            [] run.pc = "generate" -> "generate"
                            [] run.pc = "save" -> "save"
                            [] OTHER -> "none")
          /\ m.req.tcId = run.tcIds[run.i]
          /\ Len(generatedTests) = run.i - 1

\* C4 witness: the save request of the second identifier is outstanding.
C4_Witness ==
    \E m \in net : m.req.api = "save" /\ m.resp = Pending /\ run.i = 2

\* The test-case fetch failed: rejected, a non-success response, or a body that
\* cannot be read.
FetchFailed(resp) ==
    resp.kind = "rejected" \/ ~resp.ok \/ ~resp.readable

\* C5: when the test-case fetch for an identifier fails, the step that handles
\* the failure takes spec = null, issues the generation call for the same
\* identifier with the bare-identifier prompt, records no result and leaves
\* the batch running.
C5_FetchFailureIsNullSpec ==
    [][ (HandlerResumes /\ run.pc = "fetch" /\ FetchFailed(Awaited))
        => /\ run'.testCaseData.isNull
           /\ \E m \in net' :
                 /\ m.req.api = "generate"
                 /\ m.resp = Pending
                 /\ m.req.tcId = run.tcIds[run.i]
                 /\ m.req.description.prompt = "Generate Robot Framework test for Test Case ID: "
                 /\ m.req.description.tcId = run.tcIds[run.i]
           /\ generatedTests' = generatedTests
           /\ isLoading' ]_vars

\* C5 witness: after a failed fetch for the second identifier the generation
\* call with the bare prompt is outstanding.
C5_Witness ==
    /\ run.pc = "generate"
    /\ run.i = 2
    /\ run.testCaseData.isNull
    /\ \E m \in net : m.req.api = "generate" /\ m.resp = Pending
                      /\ m.req.description.name = UndefinedText

\* The id box holds no identifier: nothing but separators.
NoIdentifier == \A k \in 1..Len(testCaseIds) : testCaseIds[k] \in Separators
\* The destination root is empty or whitespace-only.
BlankFolder == \A k \in 1..Len(outputFolder) : outputFolder[k] \in Whitespace

\* C6: while no batch runs and the request would be malformed (no identifier,
\* or a blank destination root), no step issues a request or changes the
\* result sequence, the progress or the loading state.
C6_MalformedRequestRejected ==
    [][ (~isLoading /\ (NoIdentifier \/ BlankFolder))
        => /\ net' = {}
           /\ UNCHANGED <<generatedTests, currentProgress, isLoading, run>> ]_vars

\* C6 witness: the results of an earlier batch are shown, no batch runs, and
\* the id box holds separators only while the folder is set.
C6_Witness ==
    /\ ~isLoading
    /\ generatedTests # << >>
    /\ testCaseIds # << >> /\ NoIdentifier
    /\ ~BlankFolder

\* C7: every recorded result with saved = true has a present, non-empty
\* saved path.
C7_SavedHasPath ==
    \A k \in 1..Len(generatedTests) :
        generatedTests[k].saved => TruthyText(generatedTests[k].savedPath)

\* C7 witness: a saved result is recorded.
C7_Witness ==
    \E k \in 1..Len(generatedTests) :
        generatedTests[k].saved /\ Len(generatedTests[k].savedPath) > Len(OutDir)

\* The save failed: rejected, or an error response.
SaveFailed(resp) == resp.kind = "rejected" \/ ~resp.ok

\* C8: every recorded result with saved = false carries an explanation (the
\* error message of a failed generation, or the save error of a failed save),
\* and the step that handles a failed save records it in that identifier's
\* result and goes on to the next identifier.
C8_UnsavedIsExplained ==
    /\ [](\A k \in 1..Len(generatedTests) :
            LET e == generatedTests[k]
            IN  ~e.saved => IF e.status = "error" THEN Truthy(e.error)
                            ELSE Truthy(e.saveError))
    /\ [][ (HandlerResumes /\ run.pc = "save" /\ SaveFailed(Awaited))
           => /\ Len(generatedTests') = Len(generatedTests) + 1
              /\ LET e == generatedTests'[Len(generatedTests')]
                 IN  e.tcId = run.tcIds[run.i] /\ ~e.saved /\ Truthy(e.saveError)
              /\ run.i < Len(run.tcIds)
                    => /\ isLoading'
                       /\ run'.i = run.i + 1
                       /\ \E m \in net' : m.req = FetchRequest(run.tcIds[run.i + 1]) ]_vars

\* C8 witness: the first identifier's save failed without a detail from the
\* service, and the second identifier is being processed.
C8_Witness ==
    /\ isLoading
    /\ run.i = 2
    /\ generatedTests[1].status = "success"
    /\ generatedTests[1].saveError = "Failed to save file"

\* C9: every recorded result with status = success has non-empty script content.
C9_SuccessHasScript ==
    \A k \in 1..Len(generatedTests) :
        generatedTests[k].status = "success"
            => /\ generatedTests[k].testCode # UndefinedText
               /\ Len(generatedTests[k].testCode) > 0

\* C9 witness: a success result is recorded for an answer without test_code.
C9_Witness ==
    \E k \in 1..Len(generatedTests) :
        /\ generatedTests[k].status = "success"
        /\ generatedTests[k].testCode = NoCodePlaceholder(generatedTests[k].tcId)

\* C17: in every progress report of a running batch, completed_count is the
\* number of identifiers whose outcome has been recorded, total_count is N
\* and current_id is the identifier just processed (the last recorded one).
C17_ProgressCountsRecorded ==
    isLoading
    => /\ currentProgress.current = Len(generatedTests)
       /\ currentProgress.total = Len(run.tcIds)
       /\ currentProgress.current > 0
             => currentProgress.tcId = generatedTests[Len(generatedTests)].tcId

\* The last saved result among the first n that has the saved path p.
LastSavedAt(p, n) ==
    CHOOSE j \in 1..n :
        /\ generatedTests[j].saved /\ generatedTests[j].savedPath = p
        /\ \A i \in (j + 1)..n :
              ~(generatedTests[i].saved /\ generatedTests[i].savedPath = p)

\* C18: duplicate identifiers are each processed on their own.  Parsing the
\* typed list gives the typed ids in order, repeats included, and a batch
\* starts with them; whatever precedes it in the batch, each position has its
\* own outstanding fetch, generation call or save for its identifier; the
\* completed batch has one result per position; and between saves every
\* written file holds the script of the last saved result that has its path.
C18_DuplicatesProcessedIndependently ==
    /\ [](/\ \A l \in IdLists :
               testCaseIds = <<" ">> \o Render(l, 1) => parseTestCaseIds(testCaseIds) = l
          /\ run.pc \in {"fetch", "generate", "save"}
               => \E m \in net : m.req = run.awaits /\ m.req.tcId = run.tcIds[run.i]
          /\ run.pc # "save"
               => \A k \in 1..Len(generatedTests) :
                     generatedTests[k].saved
                     => [path |-> generatedTests[k].savedPath,
                         content |-> generatedTests[
                             LastSavedAt(generatedTests[k].savedPath,
                                         Len(generatedTests))].testCode] \in written)
    /\ [][ /\ (~isLoading /\ isLoading')
              => \E l \in IdLists : testCaseIds = <<" ">> \o Render(l, 1) /\ run'.tcIds = l
           /\ (isLoading /\ ~isLoading') => Len(generatedTests') = Len(run.tcIds) ]_vars

\* C18 witness: the batch TC-1, TC-1 has completed; both occurrences were
\* saved at the same path with different scripts, and the file holds the
\* second one.
C18_Witness ==
    /\ ~isLoading
    /\ IdsOf(generatedTests) = <<TC1, TC1>>
    /\ generatedTests[1].saved /\ generatedTests[2].saved
    /\ generatedTests[1].savedPath = generatedTests[2].savedPath
    /\ generatedTests[1].testCode # generatedTests[2].testCode
    /\ [path |-> generatedTests[2].savedPath, content |-> generatedTests[2].testCode]
          \in written

\* ------------------------------------------------------------ dry-run claims

\* A structured DryRunResult: a boolean success, an output text and a
\* sequence of error strings.
StructuredDryRunResult(r) ==
    ~r.isNull /\ {"success", "output", "errors"} \subseteq r.props

\* C10: dryRun never raises and always ends with a structured result: in the
\* step in which a dry run finishes (the busy flag falls), whatever the script
\* content and whatever the checker call's outcome, a structured DryRunResult
\* is held.
C10_DryRunAlwaysStructured ==
    [][ (isDryRunning /\ ~isDryRunning') => StructuredDryRunResult(dryRunResult') ]_vars

\* The checker invocation itself failed: the request was rejected (backend or
\* checker unreachable), or what came back is not a readable answer.
InvocationFailed(resp) ==
    resp.kind = "rejected" \/ (resp.kind = "http" /\ ~resp.readable)

\* The message of the exception a failed invocation raises in the handler.
InvocationMessage(resp) ==
    IF resp.kind = "rejected" THEN FailedToFetch ELSE JsonSyntaxError

\* C11: when the checker invocation itself fails, the step in which the
\* handler resumes leaves DryRunResult{success: false, errors: [the failure
\* message]}, clears the busy flag and ends the call (nothing is thrown on).
C11_InvocationFailureIsResult ==
    [][ \A m \in rvNet :
          (dryRunCall.pc = "await" /\ dryRunCall' # dryRunCall
             /\ m.req = dryRunCall.awaits /\ InvocationFailed(m.resp))
          => /\ StructuredDryRunResult(dryRunResult')
             /\ dryRunResult'.success = FALSE
             /\ dryRunResult'.errors = <<InvocationMessage(m.resp)>>
             /\ ~isDryRunning'
             /\ dryRunCall' = IdleCall ]_vars

\* C11 witness: a dry run has ended on a rejected request.
C11_Witness ==
    /\ ~isDryRunning
    /\ dryRunCall = IdleCall
    /\ StructuredDryRunResult(dryRunResult)
    /\ ~dryRunResult.success
    /\ dryRunResult.errors = <<FailedToFetch>>

\* ---------------------------------------------------- review and improve claims

\* The call failed: the request was rejected, or the backend answered with an
\* error response.
CallFailed(resp) == resp.kind = "rejected" \/ (resp.kind = "http" /\ ~resp.ok)

\* handleReview resumes in this step on the answer m.
ReviewResumes(m) ==
    reviewCall.pc = "await" /\ reviewCall' # reviewCall /\ m.req = reviewCall.awaits
\* handleImprove resumes in this step on the answer m.
ImproveResumes(m) ==
    improveCall.pc = "await" /\ improveCall' # improveCall /\ m.req = improveCall.awaits

\* C12: a failed review or improve call is an error outcome distinct from a
\* result: the step that handles a failed improve leaves no script content
\* that can be applied to the working copy, and the step that handles a failed
\* review leaves no ReviewResult.
C12_FailureLeavesNoResult ==
    [][ \A m \in aiNet :
          /\ (ImproveResumes(m) /\ CallFailed(m.resp)) => ~TruthyText(improvedCode')
          /\ (ReviewResumes(m) /\ CallFailed(m.resp)) => reviewResult'.isNull ]_vars

\* C13: handleImprove never changes a script.  The steps of the handler (its
\* start and its resumption, on success and on failure) leave the uploaded
\* scripts as they are, and a step that changes the content of a script in
\* place is the apply action: it writes the held improved code into the
\* current script and into no other.
C13_ImproveLeavesScriptsAlone ==
    [][ /\ improveCall' # improveCall => uploadedFiles' = uploadedFiles
        /\ (/\ Len(uploadedFiles') = Len(uploadedFiles)
            /\ \E k \in 1..Len(uploadedFiles) :
                  uploadedFiles'[k].content # uploadedFiles[k].content)
           => /\ TruthyText(improvedCode)
              /\ improveCall' = improveCall
              /\ uploadedFiles' = [uploadedFiles EXCEPT
                                     ![selectedFileIndex + 1].content = improvedCode] ]_vars

\* C13 witness: an improve call has returned new content and the current
\* script still has the content it was uploaded with.
C13_Witness ==
    /\ ~isImproving
    /\ improvedCode = ImprovedScript
    /\ HasCurrentFile
    /\ CurrentFile.content = Script

\* C16: the score of a held ReviewResult is null or an integer in [0,10]; the
\* step that stores a review takes the score as the backend gave it (null
\* where the text held none), and after a failed review the score is null.
C16_ScoreInRangeOrNull ==
    /\ [](("score" \in reviewResult.props)
            => \/ reviewResult.score = << >>
               \/ /\ Len(reviewResult.score) = 1
                  /\ reviewResult.score[1] \in 0..10)
    /\ [][ \A m \in aiNet :
             ReviewResumes(m)
             => /\ "score" \in reviewResult'.props
                /\ reviewResult'.score =
                      IF CallFailed(m.resp) THEN << >> ELSE m.resp.body.score ]_vars

\* C16 witness: a failed review has left its result, with a null score.
C16_Witness ==
    /\ ~isReviewing
    /\ "score" \in reviewResult.props
    /\ reviewResult.feedback = <<"Error reviewing test: ", FailedToFetch>>
    /\ reviewResult.score = << >>

\* ------------------------------------------------------------- chat claims

\* C14: the first send the store begins after a clear starts from empty prior
\* history: the history its prompt is built over is the one user turn of that
\* send, and holds no turn from before the clear.
C14_FirstSendAfterClearStartsEmpty ==
    [][ (sendCall.stage = "sent" /\ sendCall'.stage = "processing" /\ freshlyCleared)
        => session' = <<[role |-> "user", content |-> sendCall.message]>> ]_vars

\* C15: chat turns are append-only.  Every step leaves the transcript as it
\* is, appends exactly one message at its end, or replaces the whole of it by
\* a single greeting (the welcome message of a model, the message after a
\* clear).
C15_TranscriptAppendOnly ==
    [][ \/ messages' = messages
        \/ /\ Len(messages') = Len(messages) + 1
           /\ SubSeq(messages', 1, Len(messages)) = messages
        \/ /\ Len(messages') = 1
           /\ messages'[1].role = "assistant"
           /\ messages'[1].content[1] \in {"Hello! I'm ", "Chat history cleared. I'm "} ]_vars

\* C15 witness: the transcript holds a greeting, a user message and the
\* assistant's reply to it.
C15_Witness ==
    /\ Len(messages) = 3
    /\ messages[2].role = "user"
    /\ messages[3] = [role |-> "assistant", content |-> <<"reply">>]

\* C19: the model selector of each tab is one of exacode, ollama-llama3 and
\* ollama-qwen3, and so is the model of every generate, review, improve and
\* send request issued.
C19_ModelInEnumeration ==
    LET enumeration == {"exacode", "ollama-llama3", "ollama-qwen3"}
    IN  /\ selectedModel \in enumeration
        /\ reviewModel \in enumeration
        /\ chatModel \in enumeration
        /\ run.pc # "idle" => run.model \in enumeration
        /\ \A m \in net : m.req.api = "generate" => m.req.model \in enumeration
        /\ \A m \in aiNet : m.req.model \in enumeration
        /\ sendCall.pc = "await" => sendCall.model \in enumeration

\* C19 witness: an improve request with a model chosen in the Review Model box
\* is outstanding.
C19_Witness ==
    \E m \in aiNet : m.req.api = "improve" /\ m.req.model = "ollama-llama3"

\* ----------------------------------------------------------- config claims

\* Listing failed or returned no models.
ListingFailedOrEmpty(resp) ==
    \/ resp.kind = "rejected"
    \/ ~resp.ok
    \/ ~resp.readable
    \/ ~resp.hasModels
    \/ resp.models = << >>

\* C20: when a listing of the local models fails or returns no models, the
\* step in which its caller resumes empties the list of selectable models,
\* leaves the configured local model name as it is and clears the busy flag.
C20_ListingFailureTolerated ==
    [][ \A k \in 1..Len(listCalls) :
          (/\ listCalls[k].resp # ListPending
           /\ ListingFailedOrEmpty(listCalls[k].resp)
           /\ listCalls' = SubSeq(listCalls, 1, k - 1)
                               \o SubSeq(listCalls, k + 1, Len(listCalls)))
          => /\ ollamaModels' = << >>
             /\ ollamaModel' = ollamaModel
             /\ ~isLoadingModels' ]_vars

\* C20 witness: with the local provider chosen every listing has returned,
\* the last one without models; the name an earlier listing set is configured.
C20_Witness ==
    /\ provider = "ollama"
    /\ listCalls = << >>
    /\ ~isLoadingModels
    /\ ollamaModels = << >>
    /\ ollamaModel = "qwen3:8b"

\* ------------------------------------------------------ review tab selection

\* C25: whenever at least one script is uploaded the selected index is a valid
\* index, 0 <= index < number of scripts, so that a current script exists;
\* with no scripts the index is 0.
C25_SelectedIndexValid ==
    IF Len(uploadedFiles) > 0
    THEN selectedFileIndex \in 0..(Len(uploadedFiles) - 1)
    ELSE selectedFileIndex = 0

\* C25 witness: the second of two scripts is selected.
C25_Witness ==
    /\ Len(uploadedFiles) = 2
    /\ selectedFileIndex = 1
    /\ reads = << >>

\* ---------------------------------------------------- completion of a batch

\* C30: in the step that completes a batch of N identifiers the progress
\* becomes current = total = N, and the saved count of its summary is the
\* number of recorded results with saved = true, which is at most the number
\* of results with status = success.
C30_CompletionSummary ==
    [][ (isLoading /\ ~isLoading')
        => LET saved   == {k \in 1..Len(generatedTests') : generatedTests'[k].saved}
               success == {k \in 1..Len(generatedTests') :
                              generatedTests'[k].status = "success"}
           IN  /\ currentProgress'.current = Len(run.tcIds)
               /\ currentProgress'.total = Len(run.tcIds)
               /\ currentProgress'.status.savedCount = Cardinality(saved)
               /\ currentProgress'.status.of = Len(run.tcIds)
               /\ Cardinality(saved) <= Cardinality(success) ]_vars

\* C30 witness: a batch of two has completed with one of two results saved
\* and the other a success that could not be saved.
C30_Witness ==
    /\ ~isLoading
    /\ currentProgress.tcId = Complete
    /\ currentProgress.current = 2
    /\ currentProgress.status.savedCount = 1
    /\ Len(generatedTests) = 2
    /\ \A k \in 1..2 : generatedTests[k].status = "success"

\* ------------------------------------------------------- chat send and clear

\* C21: ChatTab never has two send requests outstanding for its session id,
\* and while a send is pending or the input is blank no step issues a send
\* request, appends a user message or sets isLoading.
C21_SendsSerialized ==
    /\ [](sendsOutstanding <= 1)
    /\ [][ (chatIsLoading \/ Trim(input) = << >>)
           => /\ sendsOutstanding' <= sendsOutstanding
              /\ ~(/\ Len(messages') = Len(messages) + 1
                   /\ messages'[Len(messages')].role = "user")
              /\ (chatIsLoading' => chatIsLoading) ]_vars

\* C21 witness: a send is pending and the next message is typed already.
C21_Witness ==
    /\ sendsOutstanding = 1
    /\ chatIsLoading
    /\ Trim(input) # << >>

\* C26: a step that resets the transcript to a single greeting leaves no turn
\* in the history held for the session id: the history has been cleared.
C26_ResetOnlyWhenCleared ==
    [][ (/\ messages' # messages
         /\ Len(messages') = 1
         /\ messages'[1].role = "assistant")
        => session' = << >> ]_vars

C23_ApplyReplacesImprovedScript ==
    [][ (/\ TruthyText(improvedCode) /\ improvedCode' = << >>
         /\ improveCall' = improveCall
         /\ HasCurrentFile)
        => /\ producedFrom.improve = <<CurrentFile.tcId, CurrentFile.content>>
           /\ Len(uploadedFiles') = Len(uploadedFiles)
           /\ \A k \in 1..Len(uploadedFiles) :
                 k # selectedFileIndex + 1 => uploadedFiles'[k] = uploadedFiles[k] ]_vars

\* C24: a review result or a dry-run result that is held was produced from
\* the current content of the currently selected script.
C24_ResultsOfCurrentScript ==
    /\ ~reviewResult.isNull
          => /\ HasCurrentFile
             /\ producedFrom.review = <<CurrentFile.tcId, CurrentFile.content>>
    /\ ~dryRunResult.isNull
          => /\ HasCurrentFile
             /\ producedFrom.dryRun = <<UndefinedText, CurrentFile.content>>

\* --------------------------------------------------- the local model listed

\* C28: whenever the list of available local models is non-empty, the
\* configured local model is one of its members.
C28_ModelAmongListed ==
    Len(ollamaModels) > 0
        => \E k \in 1..Len(ollamaModels) : ollamaModels[k] = ollamaModel

\* ------------------------------------------ from a saved file to its review

\* C29: the id that parseTcIdFromFilename extracts from the name of the file
\* of a save request (the filename saveTestFile derives, with the .robot
\* ending the file gets) is the id the file was saved for.
C29_FilenameRoundTrip ==
    \A m \in net :
        m.req.api = "save"
            => parseTcIdFromFilename(m.req.filename \o DotRobot) = m.req.tcId

\* ------------------------------------------------ connection tests validate

\* C22: while the provider is exacode and the API key is empty or blank, no
\* step issues an LLM test request or sets isTesting.llm, and a click on Test
\* Connection leaves the failure status that names the API key; while the
\* CodeBeamer URL, username or password is empty or blank, no step issues a
\* CodeBeamer test request or sets isTesting.cb, and a click leaves the
\* failure status that names the first missing field.
C22_ValidateBeforeTesting ==
    [][ LET blank(t) == Trim(t) = << >>
            requests(set, api) == Cardinality({m \in set : m.api = api})
        IN  /\ (provider = "exacode" /\ blank(apiKey))
                  => /\ requests(testNet', "test-llm") <= requests(testNet, "test-llm")
                     /\ isTesting'.llm => isTesting.llm
                     /\ (llmStatus' # llmStatus /\ testNet' = testNet)
                           => llmStatus' =
                                 [isNull |-> FALSE, success |-> FALSE,
                                  message |-> "EXACODE API Key is required. Please enter your API key first."]
            /\ (blank(codebeamer.url) \/ blank(codebeamer.username)
                                      \/ blank(codebeamer.password))
                  => /\ requests(testNet', "test-codebeamer")
                           <= requests(testNet, "test-codebeamer")
                     /\ isTesting'.cb => isTesting.cb
                     /\ (cbStatus' # cbStatus /\ testNet' = testNet)
                           => cbStatus' =
                                 [isNull |-> FALSE, success |-> FALSE,
                                  message |->
                                     IF blank(codebeamer.url)
                                     THEN "CodeBeamer URL is required."
                                     ELSE IF blank(codebeamer.username)
                                     THEN "Username is required."
                                     ELSE "Password is required."] ]_vars

\* C22 witness: with a blank API key and a blank password both tests have
\* been clicked: each left its failure status, no request is outstanding and
\* no testing flag is set.
C22_Witness ==
    /\ provider = "exacode"
    /\ apiKey = <<" ">>
    /\ llmStatus.message = "EXACODE API Key is required. Please enter your API key first."
    /\ codebeamer = [url |-> <<"k">>, username |-> <<"k">>, password |-> <<" ">>]
    /\ cbStatus.message = "Password is required."
    /\ testNet = {}
    /\ isTesting = [llm |-> FALSE, cb |-> FALSE]

====
